---- MODULE Spec2Model ----
(***************************************************************************)
(* ReflectAI client runtime: the capture / analysis components of          *)
(*   src/reflect-empathy-ai/src/components/MirrorInterface.tsx   (mirror)  *)
(*   src/unnamed/part_000  (the 3-second check-in App)           (checkin) *)
(*   src/reflect-empathy-ai/src/components/MirrorWithOnboarding.tsx (quiz) *)
(*                                                                         *)
(* React model.  A component's useState values and useRef cells are the    *)
(* fields of one record per component.  A handler invoked from the UI      *)
(* belongs to the latest render and reads the current state; a callback    *)
(* that was handed to setTimeout / setInterval / a promise keeps the       *)
(* values of the render that created it, so every pending timer or         *)
(* continuation carries the captured values it reads (its closure).        *)
(* useRef cells are read live.  A state setter called after the component  *)
(* was unmounted changes nothing.                                          *)
(*                                                                         *)
(* Numbers with a fractional part are kept as integer percent              *)
(* (0.8 is 80, 0.92 is 92).  The answers of the onboarding quiz, which the  *)
(* mapper searches for keywords, are sequences of characters.              *)
(***************************************************************************)
EXTENDS Integers, Sequences, FiniteSets, Bags, TLC

VARIABLES mirror, checkin, quiz

vars == <<mirror, checkin, quiz>>

(***************************************************************************)
(* Bounds of the model                                                     *)
(***************************************************************************)
\* analyzeEmotion calls admitted in the full polling specification
MaxDetections == 3
\* analyzeEmotion calls admitted in the history specification (past capacity)
MaxHistoryRuns == 11
\* getUserMedia calls pending at once
MaxPending == 2
\* analyzeEmotion calls open at once
MaxInFlight == 2
\* live streams no reference holds
MaxLeaked == 1
\* recorders created
MaxSessions == 2
\* chunks in the audio buffer
MaxChunks == 1
\* messages in the log
MaxMessages == 1

\* calls of handleSendText
MaxSends == 2
\* ticks of the polling interval that are counted
MaxTicks == 2
\* analyzeEmotion calls admitted in the normalizer specification
MaxNormalized == 1

(***************************************************************************)
(* JavaScript values of a JSON response                                    *)
(***************************************************************************)
Undef == [t |-> "undef", s |-> "", n |-> 0]
Str(x) == [t |-> "str", s |-> x, n |-> 0]
Num(x) == [t |-> "num", s |-> "", n |-> x]

\* JavaScript truthiness of a primitive: "" and 0 and undefined are falsy
Truthy(p) == \/ p.t = "str" /\ p.s # ""
             \/ p.t = "num" /\ p.n # 0

\* a || b
JsOr(a, b) == IF Truthy(a) THEN a ELSE b

\* the emotion object of a response; a missing field is Undef
EmoObj(d, e, l, c) == [dominant_emotion |-> d, emotion |-> e, label |-> l, confidence |-> c]
NoObj == EmoObj(Undef, Undef, Undef, Undef)

\* result.emotion: absent, a string, a number, or an object
EmoAbsent == [t |-> "undef", s |-> "", n |-> 0, o |-> NoObj]
EmoStr(x) == [t |-> "str", s |-> x, n |-> 0, o |-> NoObj]
EmoNum(x) == [t |-> "num", s |-> "", n |-> x, o |-> NoObj]
EmoObject(o) == [t |-> "obj", s |-> "", n |-> 0, o |-> o]

EmoTruthy(e) == \/ e.t = "obj"
                \/ e.t = "str" /\ e.s # ""
                \/ e.t = "num" /\ e.n # 0

\* the confidence the string endpoint does not report
DefaultConfidence == 80

EmotionResult(e, c, d) == [emotion |-> e, confidence |-> c, dominantEmotion |-> d]

\* mutant: the three fields are tried in the opposite order
NormalizeEmotion_LabelFirst(e) ==
  IF EmoTruthy(e)
  THEN IF e.t = "str"
       THEN EmotionResult(Str(e.s), Num(DefaultConfidence), Undef)
       ELSE IF e.t = "obj"
       THEN EmotionResult(
              JsOr(e.o.label, JsOr(e.o.emotion, JsOr(e.o.dominant_emotion, Str("neutral")))),
              JsOr(e.o.confidence, Num(DefaultConfidence)),
              e.o.dominant_emotion)
       ELSE EmotionResult(Str("neutral"), Num(DefaultConfidence), Undef)
  ELSE EmotionResult(Str("neutral"), Num(DefaultConfidence), Undef)

\* mutant: typeof is tested before truthiness, so "" is used as it is
NormalizeEmotion_TypeFirst(e) ==
  IF e.t = "str"
  THEN EmotionResult(Str(e.s), Num(DefaultConfidence), Undef)
  ELSE IF EmoTruthy(e) /\ e.t = "obj"
  THEN EmotionResult(
         JsOr(e.o.dominant_emotion, JsOr(e.o.emotion, JsOr(e.o.label, Str("neutral")))),
         JsOr(e.o.confidence, Num(DefaultConfidence)),
         e.o.dominant_emotion)
  ELSE EmotionResult(Str("neutral"), Num(DefaultConfidence), Undef)

\* mutant: the outer else is missing, so an absent field leaves emotionData unset
NormalizeEmotion_NoOuterElse(e) ==
  IF EmoTruthy(e)
  THEN IF e.t = "str"
       THEN EmotionResult(Str(e.s), Num(DefaultConfidence), Undef)
       ELSE IF e.t = "obj"
       THEN EmotionResult(
              JsOr(e.o.dominant_emotion, JsOr(e.o.emotion, JsOr(e.o.label, Str("neutral")))),
              JsOr(e.o.confidence, Num(DefaultConfidence)),
              e.o.dominant_emotion)
       ELSE EmotionResult(Str("neutral"), Num(DefaultConfidence), Undef)
  ELSE EmotionResult(Undef, Undef, Undef)

\* MirrorInterface.tsx 186-212: the result extracted from result.emotion
NormalizeEmotion(e) ==
  IF EmoTruthy(e)
  THEN IF e.t = "str"
       THEN EmotionResult(Str(e.s), Num(DefaultConfidence), Undef)
       ELSE IF e.t = "obj"
       THEN EmotionResult(
              JsOr(e.o.dominant_emotion, JsOr(e.o.emotion, JsOr(e.o.label, Str("neutral")))),
              JsOr(e.o.confidence, Num(DefaultConfidence)),
              e.o.dominant_emotion)
       ELSE EmotionResult(Str("neutral"), Num(DefaultConfidence), Undef)
  ELSE EmotionResult(Str("neutral"), Num(DefaultConfidence), Undef)

\* MirrorInterface.tsx 227-233: the fallback candidates
mockEmotions ==
  << EmotionResult(Str("neutral"), Num(90), Undef),
     EmotionResult(Str("happy"), Num(85), Undef),
     EmotionResult(Str("surprised"), Num(70), Undef),
     EmotionResult(Str("calm"), Num(80), Undef),
     EmotionResult(Str("confused"), Num(60), Undef) >>

\* currentEmotion before the first result
NoEmotion == EmotionResult(Undef, Undef, Undef)

\* the emotionHistory capacity; appended counts the results appended to it
HistoryCapacity == 10

\* s.slice(-n)
SliceLast(s, n) == IF Len(s) <= n THEN s ELSE SubSeq(s, Len(s) - n + 1, Len(s))

\* mutant: .slice(0, 10), which drops the new result of a full history
AppendHistory_KeepOldest(prev, e) == SubSeq(Append(prev, e), 1, IF Len(prev) < HistoryCapacity THEN Len(prev) + 1 ELSE HistoryCapacity)

\* MirrorInterface.tsx 217-220: [...prev, emotionData].slice(-10)
AppendHistory(prev, e) == SliceLast(Append(prev, e), HistoryCapacity)

\* the responses the /analyze endpoint gives to a polling request in the model
PollResponses == { EmoStr("happy"), EmoAbsent }

\* the emotion objects and the emotion fields the normalizer is run on: every
\* field absent, empty or set (the label also to a number), the confidence
\* absent, zero or set
EmotionObjects ==
  { EmoObj(d, e, l, c) : d \in {Undef, Str(""), Str("happy")},
                         e \in {Undef, Str(""), Str("sad")},
                         l \in {Undef, Str("calm"), Num(3)},
                         c \in {Undef, Num(0), Num(92)} }
NormalizerInputs ==
  { EmoAbsent, EmoStr(""), EmoStr("happy"), EmoStr("neutral"), EmoNum(0), EmoNum(7) }
    \cup { EmoObject(o) : o \in EmotionObjects }

(***************************************************************************)
(* MirrorInterface.tsx: video session and emotion polling                  *)
(***************************************************************************)
\* the values of one render that the callbacks created in it keep reading
Render(s) == [isDetecting |-> s.isDetecting, isVideoActive |-> s.isVideoActive,
              isRecording |-> s.isRecording]

\* MirrorInterface.tsx 73-80: the mount effect runs the first render's handlers
FirstRender == [isDetecting |-> FALSE, isVideoActive |-> FALSE, isRecording |-> FALSE]

\* a state setter: the new value while mounted, no change after unmount
SetState(s, old, new) == IF s.mounted THEN new ELSE old

One(x) == SetToBag({x})

\* an analyzeEmotion call in progress: awaiting captureFrame, then awaiting fetch;
\* stale records that the session was stopped after the call began
Analysis(stage) == [stage |-> stage, stale |-> FALSE]

RemoveAt(q, i) == SubSeq(q, 1, i - 1) \o SubSeq(q, i + 1, Len(q))

MarkStale(q) == [i \in DOMAIN q |-> [q[i] EXCEPT !.stale = TRUE]]

\* mutant: the reference is dropped but clearInterval is not called
stopEmotionDetection_KeepsTimer(s) ==
  [s EXCEPT !.emotionIntervalRef = <<>>,
            !.isDetecting = SetState(s, @, FALSE)]

\* MirrorInterface.tsx 150-156
stopEmotionDetection(s) ==
  [s EXCEPT !.intervals = IF s.emotionIntervalRef # <<>>
                          THEN @ (-) One(s.emotionIntervalRef[1]) ELSE @,
            !.emotionIntervalRef = <<>>,
            !.isDetecting = SetState(s, @, FALSE)]

\* mutant: analyzeEmotion without its check of frameBlob.size
analyzeEmotionBegin_NoSizeCheck(s, guard, frame) ==
  IF guard THEN s
  ELSE IF frame = "empty"
  THEN [s EXCEPT !.isDetecting = SetState(s, @, TRUE),
                 !.analyses = Append(@, Analysis("fetch"))]
  ELSE [s EXCEPT !.isDetecting = SetState(s, @, TRUE),
                 !.analyses = Append(@, Analysis("capture"))]

\* MirrorInterface.tsx 158-167 and 243-259: analyzeEmotion up to its first
\* suspension.  guard is the isDetecting of the caller's render; frame is
\* "empty" when captureFrame resolves at once with an empty blob (no video
\* element, or no dimensions yet) and "blob" when canvas.toBlob was started.
analyzeEmotionBegin(s, guard, frame) ==
  IF guard THEN s
  ELSE IF frame = "empty"
  THEN [s EXCEPT !.isDetecting = SetState(s, @, FALSE)]
  ELSE [s EXCEPT !.isDetecting = SetState(s, @, TRUE),
                 !.analyses = Append(@, Analysis("capture"))]

\* mutant: the empty frame returns before the try, so no finally releases the guard
analyzeEmotionCaptured_NoRelease(s, i, blob) ==
  IF blob = "empty"
  THEN [s EXCEPT !.analyses = RemoveAt(@, i)]
  ELSE [s EXCEPT !.analyses[i].stage = "fetch"]

\* MirrorInterface.tsx 269-276, 163-177, 238-240: toBlob has called back;
\* an empty blob ends the call, otherwise the request is sent
analyzeEmotionCaptured(s, i, blob) ==
  IF blob = "empty"
  THEN [s EXCEPT !.analyses = RemoveAt(@, i),
                 !.isDetecting = SetState(s, @, FALSE)]
  ELSE [s EXCEPT !.analyses[i].stage = "fetch"]

\* mutant: the counter is taken from the length of the history
analyzeEmotionResolved_CountsHistory(s, i, e) ==
  [s EXCEPT !.analyses = RemoveAt(@, i),
            !.currentEmotion = SetState(s, @, NormalizeEmotion(e)),
            !.detectionCount =
               SetState(s, @, Len(AppendHistory(s.emotionHistory, NormalizeEmotion(e)))),
            !.emotionHistory = SetState(s, @, AppendHistory(@, NormalizeEmotion(e))),
            !.appended = SetState(s, @, @ + 1),
            !.isDetecting = SetState(s, @, FALSE)]

\* MirrorInterface.tsx 183-223, 238-240: a 2xx response with JSON body {emotion: e}
analyzeEmotionResolved(s, i, e) ==
  [s EXCEPT !.analyses = RemoveAt(@, i),
            !.currentEmotion = SetState(s, @, NormalizeEmotion(e)),
            !.detectionCount = SetState(s, @, @ + 1),
            !.emotionHistory = SetState(s, @, AppendHistory(@, NormalizeEmotion(e))),
            !.appended = SetState(s, @, @ + 1),
            !.isDetecting = SetState(s, @, FALSE)]

\* mutant: Math.round for Math.floor, whose top index is past the candidates
analyzeEmotionRejected_PastEnd(s, i, k) ==
  [s EXCEPT !.analyses = RemoveAt(@, i),
            !.currentEmotion = SetState(s, @, IF k = Len(mockEmotions) THEN NoEmotion
                                              ELSE mockEmotions[k]),
            !.detectionCount = SetState(s, @, @ + 1),
            !.isDetecting = SetState(s, @, FALSE)]

\* mutant: the fallback result is appended to the history like a real one
analyzeEmotionRejected_AppendsMock(s, i, k) ==
  [s EXCEPT !.analyses = RemoveAt(@, i),
            !.currentEmotion = SetState(s, @, mockEmotions[k]),
            !.detectionCount = SetState(s, @, @ + 1),
            !.emotionHistory = SetState(s, @, AppendHistory(@, mockEmotions[k])),
            !.isDetecting = SetState(s, @, FALSE)]

\* MirrorInterface.tsx 179-181, 224-240: fetch rejected or the status is not 2xx;
\* k is the index Math.random picks
analyzeEmotionRejected(s, i, k) ==
  [s EXCEPT !.analyses = RemoveAt(@, i),
            !.currentEmotion = SetState(s, @, mockEmotions[k]),
            !.detectionCount = SetState(s, @, @ + 1),
            !.isDetecting = SetState(s, @, FALSE)]

\* mutant: the polling is armed without stopping the previous one
startEmotionDetection_NoStop(s, c, frame) ==
  LET s2 == analyzeEmotionBegin(s, c.isDetecting, frame)
  IN [s2 EXCEPT !.intervals = @ (+) One(c), !.emotionIntervalRef = <<c>>]

\* MirrorInterface.tsx 135-148, called from the render c
startEmotionDetection(s, c, frame) ==
  LET s1 == stopEmotionDetection(s)
      s2 == analyzeEmotionBegin(s1, c.isDetecting, frame)
  IN [s2 EXCEPT !.intervals = @ (+) One(c), !.emotionIntervalRef = <<c>>]

\* MirrorInterface.tsx 143-147: one tick of the interval armed by the render c
emotionIntervalTick(s, c, frame) ==
  IF s.mounted /\ c.isVideoActive THEN analyzeEmotionBegin(s, c.isDetecting, frame) ELSE s

\* MirrorInterface.tsx 82-87: startVideo called from the render c, up to getUserMedia
startVideo(s, c) == [s EXCEPT !.acquiring = @ (+) One(c)]

\* MirrorInterface.tsx 89-98: getUserMedia resolved with a live stream; the video
\* element is there while mounted.  A stream no reference holds stays live.
startVideoResolved(s, c) ==
  IF s.mounted
  THEN [s EXCEPT !.acquiring = @ (-) One(c),
                 !.leakedStreams = IF s.streamRef THEN @ + 1 ELSE @,
                 !.streamRef = TRUE,
                 !.isVideoActive = TRUE,
                 !.startTimers = @ (+) One(c)]
  ELSE [s EXCEPT !.acquiring = @ (-) One(c),
                 !.leakedStreams = @ + 1]

\* MirrorInterface.tsx 99-106: getUserMedia rejected; only a toast
startVideoRejected(s, c) == [s EXCEPT !.acquiring = @ (-) One(c)]

\* a MediaRecorder: "recording"; "stopping" once it is inactive with its task
\* (dataavailable, then stop) queued; "inactive" after that task.  stops counts
\* the stop() calls made on it while it was recording, uploads the
\* uploadToAnalyze calls made for it, and atStop the length of the chunk buffer
\* its stop handler found (-1 before that).
Recorder == [state |-> "recording", stops |-> 0, uploads |-> 0, atStop |-> -1]

\* the platform ends a recorder all of whose tracks have ended
EndTracks(rs) ==
  [i \in DOMAIN rs |-> IF rs[i].state = "recording"
                       THEN [rs[i] EXCEPT !.state = "stopping"] ELSE rs[i]]

\* mutant: streamRef.current?.getTracks() in place of the guard, the rest unguarded
stopVideo_NoGuard(s) ==
  stopEmotionDetection([s EXCEPT !.streamRef = FALSE,
                                 !.recorders = IF s.streamRef THEN EndTracks(@) ELSE @,
                                 !.isVideoActive = SetState(s, @, FALSE),
                                 !.analyses = MarkStale(@)])

\* MirrorInterface.tsx 109-116
stopVideo(s) ==
  IF s.streamRef
  THEN stopEmotionDetection([s EXCEPT !.streamRef = FALSE,
                                      !.recorders = EndTracks(@),
                                      !.isVideoActive = SetState(s, @, FALSE),
                                      !.analyses = MarkStale(@)])
  ELSE s

(***************************************************************************)
(* MirrorInterface.tsx: recording and upload                               *)
(***************************************************************************)
\* an upload on its way: session is the recorder it belongs to (0: quickAnalyze),
\* audio the chunks of its audio blob
Upload(session, stage, audio) ==
  [session |-> session, stage |-> stage, audio |-> audio]

\* result.therapist_reply: absent, a string, or an object {error, text}
ReplyAbsent == [t |-> "undef", s |-> "", error |-> Undef, text |-> Undef]
ReplyStr(x) == [t |-> "str", s |-> x, error |-> Undef, text |-> Undef]
ReplyObj(e, x) == [t |-> "obj", s |-> "", error |-> e, text |-> x]

ApologyText == "I encountered an error analyzing your input. Please try again."
AnalyzedText == "I've analyzed your input and I'm here to help!"

\* JSON.stringify of a primitive and of a reply object (undefined fields are left out)
JsonPrim(p) == IF p.t = "str" THEN <<"str", p.s>> ELSE <<"num", p.n>>
JsonReply(r) ==
  (IF r.error.t # "undef" THEN <<<<"error", JsonPrim(r.error)>>>> ELSE <<>>) \o
  (IF r.text.t # "undef" THEN <<<<"text", JsonPrim(r.text)>>>> ELSE <<>>)

\* a message content: a string, a passed-through primitive, or a JSON text
PrimContent(p) == [kind |-> p.t, s |-> p.s, n |-> p.n, json |-> <<>>]
Text(x) == PrimContent(Str(x))
JsonText(j) == [kind |-> "json", s |-> "", n |-> 0, json |-> j]

\* mutant: the text field is looked at before the error flag
ReplyContent_TextFirst(r) ==
  IF r.t = "obj"
  THEN IF Truthy(r.text) THEN PrimContent(r.text)
       ELSE IF Truthy(r.error) THEN Text(ApologyText)
       ELSE JsonText(JsonReply(r))
  ELSE IF r.t = "str" /\ r.s # "" THEN Text(r.s)
  ELSE Text(AnalyzedText)

\* MirrorInterface.tsx 304-320: the assistant message of a response
ReplyContent(r) ==
  IF r.t = "obj"
  THEN IF Truthy(r.error) THEN Text(ApologyText)
       ELSE IF Truthy(r.text) THEN PrimContent(r.text)
       ELSE JsonText(JsonReply(r))
  ELSE IF r.t = "str" /\ r.s # "" THEN Text(r.s)
  ELSE Text(AnalyzedText)

\* the therapist_reply values of the /analyze endpoint in the model
ReplyResponses == { ReplyStr("hello"), ReplyAbsent }

\* the therapist_reply values the reply handling is run on: absent, a string
\* (empty or not), an object with its error and text absent, empty or set
ReplyInputs ==
  { ReplyAbsent, ReplyStr(""), ReplyStr("hello") }
    \cup { ReplyObj(e, x) : e \in {Undef, Str(""), Str("failed")},
                            x \in {Undef, Str(""), Str("hi"), Num(5)} }

Message(role, content) == [role |-> role, content |-> content]

\* MirrorInterface.tsx 444-446
addMessage(s, role, content) ==
  [s EXCEPT !.messages = SetState(s, @, Append(@, Message(role, content)))]

\* the characters String.prototype.trim removes that the inputs use
WhiteSpace == {" ", "\t", "\n"}

RECURSIVE trimStart(_)
trimStart(s) == IF s # <<>> /\ Head(s) \in WhiteSpace THEN trimStart(Tail(s)) ELSE s

RECURSIVE trimEnd(_)
trimEnd(s) ==
  IF s # <<>> /\ s[Len(s)] \in WhiteSpace THEN trimEnd(SubSeq(s, 1, Len(s) - 1)) ELSE s

\* String.prototype.trim on a string kept as its sequence of characters
trim(s) == trimEnd(trimStart(s))

\* what the user types into the input of MirrorInterface.tsx 711-716
InputTexts ==
  {<<>>, <<" ", " ">>, <<"\t">>, <<"h", "i">>, <<" ", "h", "i", " ">>}

\* the demo answer of MirrorInterface.tsx 454
DemoReply ==
  "I understand. Let me help you with that. This is a demo response that shows how the chat interface works with your input."

\* mutant: handleSendText without the trim of its guard
handleSendText_NoTrim(s) ==
  IF s.inputText # <<>>
  THEN LET s1 == addMessage(s, "user", s.inputText)
       IN [s1 EXCEPT !.inputText = SetState(s, @, <<>>), !.replyTimers = @ + 1]
  ELSE s

\* MirrorInterface.tsx 448-457 (the same code at MirrorWithOnboarding.tsx 349-361)
handleSendText(s) ==
  IF trim(s.inputText) # <<>>
  THEN LET s1 == addMessage(s, "user", s.inputText)
       IN [s1 EXCEPT !.inputText = SetState(s, @, <<>>), !.replyTimers = @ + 1]
  ELSE s

\* MirrorInterface.tsx 453-455: the callback of the 1000 ms timeout
replyTimeout(s) == [addMessage(s, "assistant", DemoReply) EXCEPT !.replyTimers = @ - 1]

\* MirrorInterface.tsx 335-416; ok is FALSE when the MediaRecorder constructor or
\* start() throws
startRecording(s, ok) ==
  IF ~s.streamRef THEN s
  ELSE IF ~ok THEN [s EXCEPT !.audioChunksRef = <<>>]
  ELSE [s EXCEPT !.audioChunksRef = <<>>,
                 !.recorders = Append(@, Recorder),
                 !.mediaRecorderRef = Len(s.recorders) + 1,
                 !.isRecording = SetState(s, @, TRUE),
                 !.captureIntervals = @ + 1,
                 !.captureIntervalRef = TRUE]

\* mutant: stop also empties the chunk buffer, outside its guard
stopRecording_FlushesBuffer(s, rec) ==
  IF s.mediaRecorderRef # 0 /\ rec
  THEN [s EXCEPT !.recorders[s.mediaRecorderRef] =
                    IF @.state = "recording"
                    THEN [@ EXCEPT !.state = "stopping", !.stops = @ + 1] ELSE @,
                 !.captureIntervals = IF s.captureIntervalRef THEN @ - 1 ELSE @,
                 !.captureIntervalRef = FALSE,
                 !.audioChunksRef = <<>>,
                 !.isRecording = SetState(s, @, FALSE)]
  ELSE [s EXCEPT !.audioChunksRef = <<>>]

\* MirrorInterface.tsx 418-434, called from a render whose isRecording is rec
stopRecording(s, rec) ==
  IF s.mediaRecorderRef # 0 /\ rec
  THEN [s EXCEPT !.recorders[s.mediaRecorderRef] =
                    IF @.state = "recording"
                    THEN [@ EXCEPT !.state = "stopping", !.stops = @ + 1] ELSE @,
                 !.captureIntervals = IF s.captureIntervalRef THEN @ - 1 ELSE @,
                 !.captureIntervalRef = FALSE,
                 !.isRecording = SetState(s, @, FALSE)]
  ELSE s

\* MirrorInterface.tsx 359-363: a dataavailable event of recorder i; size is the
\* size of its blob
ondataavailable(s, i, size) ==
  IF size > 0 THEN [s EXCEPT !.audioChunksRef = Append(@, i)] ELSE s

\* MirrorInterface.tsx 280-291: uploadToAnalyze up to its fetch
uploadToAnalyzeBegin(s, j) ==
  [s EXCEPT !.isUploading = SetState(s, @, TRUE),
            !.uploads[j].stage = "fetch",
            !.recorders = IF s.uploads[j].session = 0 THEN @
                          ELSE [@ EXCEPT ![s.uploads[j].session].uploads = @ + 1]]

\* mutant: the stop handler without its check for an empty buffer
onstop_NoEmptyCheck(s, i, frame) ==
  LET s0 == [s EXCEPT !.recorders[i].atStop = Len(s.audioChunksRef)]
      s1 == [s0 EXCEPT !.uploads = Append(@, Upload(i, "capture", s.audioChunksRef))]
  IN IF frame = "empty" THEN uploadToAnalyzeBegin(s1, Len(s1.uploads)) ELSE s1

\* MirrorInterface.tsx 365-381: the stop event of recorder i, after its last
\* dataavailable; frame is "empty" when captureFrame resolves at once
onstop(s, i, frame) ==
  LET s0 == [s EXCEPT !.recorders[i].atStop = Len(s.audioChunksRef)]
  IN IF Len(s.audioChunksRef) = 0 THEN s0
     ELSE LET s1 == [s0 EXCEPT !.uploads = Append(@, Upload(i, "capture", s.audioChunksRef))]
          IN IF frame = "empty" THEN uploadToAnalyzeBegin(s1, Len(s1.uploads)) ELSE s1

\* the task stop() queued on recorder i: dataavailable with the rest, then stop
recorderStopTask(s, i, size, frame) ==
  onstop([ondataavailable(s, i, size) EXCEPT !.recorders[i].state = "inactive"], i, frame)

\* MirrorInterface.tsx 293-322, 330-332 (and 481-483 for quickAnalyze): a 2xx
\* response with JSON body {therapist_reply: r}
uploadResolved(s, j, r) ==
  LET s1 == addMessage(s, "assistant", ReplyContent(r))
  IN [s1 EXCEPT !.uploads = RemoveAt(@, j),
                !.isUploading = SetState(s, @, FALSE)]

\* mutant: setIsUploading(false) at the end of the try instead of in a finally
uploadRejected_NoFinally(s, j) == [s EXCEPT !.uploads = RemoveAt(@, j)]

\* MirrorInterface.tsx 293-295, 323-332: fetch rejected or the status is not 2xx
uploadRejected(s, j) ==
  [s EXCEPT !.uploads = RemoveAt(@, j),
            !.isUploading = SetState(s, @, FALSE)]

\* MirrorInterface.tsx 459-473, called from the render c, up to its await
quickAnalyze(s, c, frame) ==
  IF ~c.isVideoActive THEN s
  ELSE LET s1 == [s EXCEPT !.isUploading = SetState(s, @, TRUE),
                           !.uploads = Append(@, Upload(0, "capture", <<>>))]
       IN IF frame = "empty" THEN uploadToAnalyzeBegin(s1, Len(s1.uploads)) ELSE s1

\* MirrorInterface.tsx 436-442
toggleRecording(s, c, ok) ==
  IF c.isRecording THEN stopRecording(s, c.isRecording) ELSE startRecording(s, ok)

\* MirrorInterface.tsx 119-133
toggleVideo(s, c) == IF c.isVideoActive THEN stopVideo(s) ELSE startVideo(s, c)

\* MirrorInterface.tsx 75-79: the cleanup of the mount effect, which holds the
\* first render's handlers
unmount(s) ==
  LET s0 == [s EXCEPT !.mounted = FALSE]
      s1 == stopVideo(s0)
      s2 == stopRecording(s1, FirstRender.isRecording)
  IN stopEmotionDetection([s2 EXCEPT !.analyses = MarkStale(@)])

(***************************************************************************)
(* MirrorInterface: the state after the first render and its mount effect  *)
(***************************************************************************)
MirrorInit ==
  [mounted |-> TRUE,
   messages |-> <<>>, isRecording |-> FALSE, isVideoActive |-> FALSE,
   isUploading |-> FALSE, currentEmotion |-> NoEmotion, emotionHistory |-> <<>>,
   isDetecting |-> FALSE, detectionCount |-> 0,
   mediaRecorderRef |-> 0, streamRef |-> FALSE, audioChunksRef |-> <<>>,
   captureIntervalRef |-> FALSE, emotionIntervalRef |-> <<>>,
   acquiring |-> One(FirstRender), leakedStreams |-> 0,
   startTimers |-> EmptyBag, intervals |-> EmptyBag, captureIntervals |-> 0,
   analyses |-> <<>>, recorders |-> <<>>, uploads |-> <<>>,
   inputText |-> <<>>, replyTimers |-> 0,
   appended |-> 0, ticks |-> 0, skips |-> FALSE, response |-> <<>>, replies |-> <<>>,
   sends |-> 0]

\* what captureFrame can give at once: no video element after unmount
Frames(s) == IF s.mounted THEN {"empty", "blob"} ELSE {"empty"}

\* the bound on analyzeEmotion calls
Admits(s, cap) == Len(s.analyses) < MaxInFlight /\ s.detectionCount + Len(s.analyses) < cap

GetUserMediaResolve ==
  /\ \E c \in BagToSet(mirror.acquiring) : mirror' = startVideoResolved(mirror, c)
  /\ UNCHANGED <<checkin, quiz>>

GetUserMediaReject ==
  /\ \E c \in BagToSet(mirror.acquiring) : mirror' = startVideoRejected(mirror, c)
  /\ UNCHANGED <<checkin, quiz>>

\* MirrorInterface.tsx 95-97: the 1 s timeout of startVideo fires
StartTimerFire(cap) ==
  /\ Admits(mirror, cap)
  /\ \E c \in BagToSet(mirror.startTimers), frame \in Frames(mirror) :
       mirror' = startEmotionDetection([mirror EXCEPT !.startTimers = @ (-) One(c)], c, frame)
  /\ UNCHANGED <<checkin, quiz>>

EmotionIntervalTick(cap) ==
  /\ Admits(mirror, cap)
  /\ \E c \in BagToSet(mirror.intervals), frame \in Frames(mirror) :
       mirror' = emotionIntervalTick(mirror, c, frame)
  /\ UNCHANGED <<checkin, quiz>>

\* MirrorInterface.tsx 143-147: a tick of the polling interval; ticks counts the
\* ticks at which captureFrame had a frame to draw
PollTick(cap) ==
  /\ Admits(mirror, cap) /\ mirror.ticks < MaxTicks
  /\ \E c \in BagToSet(mirror.intervals), frame \in Frames(mirror) :
       mirror' = [emotionIntervalTick(mirror, c, frame) EXCEPT
                    !.ticks = IF frame = "blob" THEN @ + 1 ELSE @]
  /\ UNCHANGED <<checkin, quiz>>

\* MirrorInterface.tsx 486-492 behind the button of 627-636
ForceEmotionUpdate(cap) ==
  /\ mirror.mounted /\ mirror.isVideoActive /\ ~mirror.isDetecting
  /\ Admits(mirror, cap)
  /\ \E frame \in Frames(mirror) :
       mirror' = analyzeEmotionBegin(mirror, Render(mirror).isDetecting, frame)
  /\ UNCHANGED <<checkin, quiz>>

\* MirrorInterface.tsx 486-492 behind the button of 627-636; skips flips at
\* every call whose captureFrame gave the empty blob at once
ForceEmotionCycle(cap) ==
  /\ mirror.mounted /\ mirror.isVideoActive /\ ~mirror.isDetecting
  /\ Admits(mirror, cap)
  /\ \E frame \in Frames(mirror) :
       mirror' = [analyzeEmotionBegin(mirror, Render(mirror).isDetecting, frame) EXCEPT
                    !.skips = IF frame = "empty" THEN ~@ ELSE @]
  /\ UNCHANGED <<checkin, quiz>>

CaptureDone ==
  /\ \E i \in DOMAIN mirror.analyses, blob \in {"empty", "blob"} :
       /\ mirror.analyses[i].stage = "capture"
       /\ mirror' = analyzeEmotionCaptured(mirror, i, blob)
  /\ UNCHANGED <<checkin, quiz>>

AnalyzeResponse ==
  /\ \E i \in DOMAIN mirror.analyses, e \in PollResponses :
       /\ mirror.analyses[i].stage = "fetch"
       /\ mirror' = analyzeEmotionResolved(mirror, i, e)
  /\ UNCHANGED <<checkin, quiz>>

\* MirrorInterface.tsx 183-223: a 2xx response with any of the emotion fields of
\* NormalizerInputs; response keeps the field the normalizer was given
AnalyzeAnyResponse ==
  /\ \E i \in DOMAIN mirror.analyses, e \in NormalizerInputs :
       /\ mirror.analyses[i].stage = "fetch"
       /\ mirror' = [analyzeEmotionResolved(mirror, i, e) EXCEPT !.response = <<e>>]
  /\ UNCHANGED <<checkin, quiz>>

AnalyzeFailure ==
  /\ \E i \in DOMAIN mirror.analyses, k \in DOMAIN mockEmotions :
       /\ mirror.analyses[i].stage = "fetch"
       /\ mirror' = analyzeEmotionRejected(mirror, i, k)
  /\ UNCHANGED <<checkin, quiz>>

\* the button of MirrorInterface.tsx 594-603
ToggleVideo ==
  /\ mirror.mounted /\ ~mirror.isRecording
  /\ mirror.isVideoActive \/
       /\ BagCardinality(mirror.acquiring) + BagCardinality(mirror.startTimers) < MaxPending
       /\ mirror.leakedStreams < MaxLeaked
  /\ mirror' = toggleVideo(mirror, Render(mirror))
  /\ UNCHANGED <<checkin, quiz>>

\* the button of MirrorInterface.tsx 605-614
ToggleRecording ==
  /\ mirror.mounted /\ mirror.isVideoActive /\ ~mirror.isUploading
  /\ mirror.isRecording \/ Len(mirror.recorders) < MaxSessions
  /\ \E ok \in BOOLEAN : mirror' = toggleRecording(mirror, Render(mirror), ok)
  /\ UNCHANGED <<checkin, quiz>>

\* a timeslice of recorder i has passed (start(1000))
RecorderData ==
  /\ \E i \in DOMAIN mirror.recorders, size \in {0, 1} :
       /\ mirror.recorders[i].state = "recording"
       /\ Len(mirror.audioChunksRef) < MaxChunks
       /\ mirror' = ondataavailable(mirror, i, size)
  /\ UNCHANGED <<checkin, quiz>>

RecorderStopTask ==
  /\ \E i \in DOMAIN mirror.recorders, size \in {0, 1}, frame \in Frames(mirror) :
       /\ mirror.recorders[i].state = "stopping"
       /\ mirror' = recorderStopTask(mirror, i, size, frame)
  /\ UNCHANGED <<checkin, quiz>>

\* captureFrame of an upload resolved from canvas.toBlob (with a blob or an
\* empty one: the upload goes on alike)
UploadCaptured ==
  /\ \E j \in DOMAIN mirror.uploads :
       /\ mirror.uploads[j].stage = "capture"
       /\ mirror' = uploadToAnalyzeBegin(mirror, j)
  /\ UNCHANGED <<checkin, quiz>>

UploadResponse ==
  /\ \E j \in DOMAIN mirror.uploads, r \in ReplyResponses :
       /\ mirror.uploads[j].stage = "fetch"
       /\ mirror' = uploadResolved(mirror, j, r)
  /\ UNCHANGED <<checkin, quiz>>

\* MirrorInterface.tsx 293-322: a 2xx response with any therapist_reply of
\* ReplyInputs; replies keeps the replies handled while mounted, in order
UploadAnyResponse ==
  /\ \E j \in DOMAIN mirror.uploads, r \in ReplyInputs :
       /\ mirror.uploads[j].stage = "fetch"
       /\ mirror' = [uploadResolved(mirror, j, r) EXCEPT
                       !.replies = SetState(mirror, @, Append(@, r))]
  /\ UNCHANGED <<checkin, quiz>>

UploadFailure ==
  /\ \E j \in DOMAIN mirror.uploads :
       /\ mirror.uploads[j].stage = "fetch"
       /\ mirror' = uploadRejected(mirror, j)
  /\ UNCHANGED <<checkin, quiz>>

\* the button of MirrorInterface.tsx 616-625
QuickAnalyze ==
  /\ mirror.mounted /\ mirror.isVideoActive /\ ~mirror.isUploading /\ ~mirror.isRecording
  /\ Len(mirror.messages) + Len(mirror.uploads) < MaxMessages
  /\ \E frame \in Frames(mirror) : mirror' = quickAnalyze(mirror, Render(mirror), frame)
  /\ UNCHANGED <<checkin, quiz>>

Unmount ==
  /\ mirror.mounted
  /\ mirror' = unmount(mirror)
  /\ UNCHANGED <<checkin, quiz>>

\* MirrorInterface.tsx 714: onChange of the text input
ChangeInput ==
  /\ mirror.mounted
  /\ \E v \in InputTexts \ {mirror.inputText} :
       mirror' = [mirror EXCEPT !.inputText = v]
  /\ UNCHANGED <<checkin, quiz>>

\* the Send button or Enter; sends counts the calls of handleSendText
SendText ==
  /\ mirror.mounted
  /\ mirror.sends < MaxSends
  /\ mirror' = [handleSendText(mirror) EXCEPT !.sends = @ + 1]
  /\ UNCHANGED <<checkin, quiz>>

\* a timeout of handleSendText expires (it is never cleared)
ReplyTimerFire ==
  /\ mirror.replyTimers > 0
  /\ mirror' = replyTimeout(mirror)
  /\ UNCHANGED <<checkin, quiz>>


(***************************************************************************)
(* MirrorWithOnboarding.tsx: mapAnswersToConfig                            *)
(***************************************************************************)
\* String.prototype.includes on sequences of characters
Includes(s, k) == \E i \in 0..(Len(s) - Len(k)) : SubSeq(s, i + 1, i + Len(k)) = k

\* String.prototype.toLowerCase: the upper-case letters and what they become
LowerOf ==
  ("A" :> "a") @@ ("B" :> "b") @@ ("C" :> "c") @@ ("D" :> "d") @@ ("E" :> "e") @@ ("F" :> "f") @@
  ("G" :> "g") @@ ("H" :> "h") @@ ("I" :> "i") @@ ("J" :> "j") @@ ("K" :> "k") @@ ("L" :> "l") @@
  ("M" :> "m") @@ ("N" :> "n") @@ ("O" :> "o") @@ ("P" :> "p") @@ ("Q" :> "q") @@ ("R" :> "r") @@
  ("S" :> "s") @@ ("T" :> "t") @@ ("U" :> "u") @@ ("V" :> "v") @@ ("W" :> "w") @@ ("X" :> "x") @@
  ("Y" :> "y") @@ ("Z" :> "z")
toLowerCase(s) == [i \in DOMAIN s |-> IF s[i] \in DOMAIN LowerOf THEN LowerOf[s[i]] ELSE s[i]]

\* the keywords of MirrorWithOnboarding.tsx 43-63
Kw_Understand == <<"U", "n", "d", "e", "r", "s", "t", "a", "n", "d">>
Kw_mood == <<"m", "o", "o", "d">>
Kw_Emotional == <<"E", "m", "o", "t", "i", "o", "n", "a", "l">>
Kw_Manage == <<"M", "a", "n", "a", "g", "e">>
Kw_Short == <<"S", "h", "o", "r", "t">>
Kw_Warm == <<"W", "a", "r", "m">>
Kw_Avoid == <<"A", "v", "o", "i", "d">>
Kw_Neutral == <<"N", "e", "u", "t", "r", "a", "l">>
Kw_Calming == <<"C", "a", "l", "m", "i", "n", "g">>
Kw_Encouraging == <<"E", "n", "c", "o", "u", "r", "a", "g", "i", "n", "g">>
Kw_Journaling == <<"J", "o", "u", "r", "n", "a", "l", "i", "n", "g">>
Kw_Only == <<"O", "n", "l", "y">>
Kw_day == <<"d", "a", "y">>
Kw_play == <<"p", "l", "a", "y">>
Kw_voice == <<"v", "o", "i", "c", "e">>

\* MirrorWithOnboarding.tsx 82-113: the options of the six questions (the dash
\* of the second option of q3 is written "-")
QUESTIONS ==
  <<
    [id |-> "q1", opts |-> <<
       <<"U", "n", "d", "e", "r", "s", "t", "a", "n", "d", " ", "m", "y", " ", "m", "o", "o", "d">>,
       <<"E", "m", "o", "t", "i", "o", "n", "a", "l", " ", "s", "u", "p", "p", "o", "r", "t">>,
       <<"M", "a", "n", "a", "g", "e", " ", "s", "t", "r", "e", "s", "s">>,
       <<"J", "u", "s", "t", " ", "t", "r", "y", "i", "n", "g", " ", "i", "t", " ", "o", "u", "t", " ", "/", " ", "d", "e", "m", "o">> >>],
    [id |-> "q2", opts |-> <<
       <<"S", "h", "o", "r", "t", " ", "&", " ", "d", "i", "r", "e", "c", "t">>,
       <<"W", "a", "r", "m", " ", "&", " ", "c", "o", "n", "v", "e", "r", "s", "a", "t", "i", "o", "n", "a", "l">>,
       <<"R", "e", "f", "l", "e", "c", "t", "i", "v", "e", " ", "&", " ", "d", "e", "e", "p">> >>],
    [id |-> "q3", opts |-> <<
       <<"A", "v", "o", "i", "d", " ", "h", "e", "a", "v", "y", " ", "t", "o", "p", "i", "c", "s">>,
       <<"N", "e", "u", "t", "r", "a", "l", " ", "-", " ", "f", "i", "n", "e", " ", "w", "i", "t", "h", " ", "g", "e", "n", "t", "l", "e", " ", "e", "m", "o", "t", "i", "o", "n", "a", "l", " ", "c", "o", "n", "t", "e", "n", "t">>,
       <<"O", "p", "e", "n", " ", "t", "o", " ", "d", "e", "e", "p", "e", "r", " ", "t", "a", "l", "k">> >>],
    [id |-> "q4", opts |-> <<
       <<"C", "a", "l", "m", "i", "n", "g", " ", "t", "e", "c", "h", "n", "i", "q", "u", "e", "s", " ", "(", "b", "r", "e", "a", "t", "h", "i", "n", "g", ",", " ", "g", "r", "o", "u", "n", "d", "i", "n", "g", ")">>,
       <<"E", "n", "c", "o", "u", "r", "a", "g", "i", "n", "g", " ", "/", " ", "m", "o", "t", "i", "v", "a", "t", "i", "o", "n", "a", "l", " ", "l", "i", "n", "e", "s">>,
       <<"J", "o", "u", "r", "n", "a", "l", "i", "n", "g", " ", "p", "r", "o", "m", "p", "t", "s", " ", "/", " ", "r", "e", "f", "l", "e", "c", "t", "i", "o", "n">>,
       <<"S", "t", "r", "e", "s", "s", "-", "c", "o", "p", "i", "n", "g", " ", "t", "i", "p", "s", " ", "/", " ", "e", "d", "u", "c", "a", "t", "i", "o", "n">> >>],
    [id |-> "q5", opts |-> <<
       <<"O", "n", "l", "y", " ", "f", "o", "r", " ", "t", "h", "i", "s", " ", "d", "e", "m", "o">>,
       <<"O", "n", "c", "e", " ", "a", " ", "d", "a", "y", " ", "o", "r", " ", "l", "e", "s", "s">>,
       <<"M", "u", "l", "t", "i", "p", "l", "e", " ", "t", "i", "m", "e", "s", " ", "a", " ", "d", "a", "y">> >>],
    [id |-> "q6", opts |-> <<
       <<"T", "e", "x", "t", " ", "o", "n", "l", "y">>,
       <<"A", "l", "s", "o", " ", "p", "l", "a", "y", " ", "s", "o", "f", "t", " ", "v", "o", "i", "c", "e", "/", "g", "e", "n", "t", "l", "e", " ", "t", "o", "n", "e">> >>] >>

QuestionIds == {"q1", "q2", "q3", "q4", "q5", "q6"}

\* RawAnswers: every answer is absent (<<>>) or a string (<<s>>)
NoAnswers == [id \in QuestionIds |-> <<>>]

\* MirrorWithOnboarding.tsx 36-41: raw.q ?? ""
Answer(raw, id) == IF raw[id] = <<>> THEN <<>> ELSE raw[id][1]

\* mutant: the test for "Emotional" comes before the test for the mood
mode_EmotionalFirst(q1) ==
  IF Includes(q1, Kw_Emotional) THEN "emotional_support"
  ELSE IF Includes(q1, Kw_Understand) \/ Includes(toLowerCase(q1), Kw_mood) THEN "mood_monitoring"
  ELSE IF Includes(q1, Kw_Manage) THEN "stress_management"
  ELSE "demo"

\* MirrorWithOnboarding.tsx 43-46
mode(q1) ==
  IF Includes(q1, Kw_Understand) \/ Includes(toLowerCase(q1), Kw_mood) THEN "mood_monitoring"
  ELSE IF Includes(q1, Kw_Emotional) THEN "emotional_support"
  ELSE IF Includes(q1, Kw_Manage) THEN "stress_management"
  ELSE "demo"

\* MirrorWithOnboarding.tsx 48-49
tone(q2) ==
  IF Includes(q2, Kw_Short) THEN "direct"
  ELSE IF Includes(q2, Kw_Warm) THEN "warm" ELSE "reflective"

\* MirrorWithOnboarding.tsx 51-52
depth(q3) ==
  IF Includes(q3, Kw_Avoid) THEN "light"
  ELSE IF Includes(q3, Kw_Neutral) THEN "neutral" ELSE "deep"

\* MirrorWithOnboarding.tsx 54-57
intervention_type(q4) ==
  IF Includes(q4, Kw_Calming) THEN "breathing"
  ELSE IF Includes(q4, Kw_Encouraging) THEN "encouragement"
  ELSE IF Includes(q4, Kw_Journaling) THEN "journaling" ELSE "coping_tips"

\* mutant: the catch-all of the frequency is "daily"
frequency_DailyDefault(q5) ==
  IF Includes(q5, Kw_Only) THEN "demo"
  ELSE IF Includes(q5, Kw_day) THEN "daily" ELSE "daily"

\* MirrorWithOnboarding.tsx 59-61
frequency(q5) ==
  IF Includes(q5, Kw_Only) THEN "demo"
  ELSE IF Includes(q5, Kw_day) THEN "daily" ELSE "multiple_daily"

\* MirrorWithOnboarding.tsx 63
audio_enabled(q6) ==
  Includes(toLowerCase(q6), Kw_play) \/ Includes(toLowerCase(q6), Kw_voice)

\* MirrorWithOnboarding.tsx 35-74
mapAnswersToConfig(raw) ==
  [mode |-> mode(Answer(raw, "q1")),
   tone |-> tone(Answer(raw, "q2")),
   depth |-> depth(Answer(raw, "q3")),
   intervention_type |-> intervention_type(Answer(raw, "q4")),
   frequency |-> frequency(Answer(raw, "q5")),
   audio_enabled |-> audio_enabled(Answer(raw, "q6")),
   raw_answers |-> raw]

\* the answers the mapper is called with: absent, options of the quiz, and
\* strings that hold two keywords or a keyword in another case
MapperAnswers ==
  [q1 |-> { <<>>, <<QUESTIONS[1].opts[1]>>, <<QUESTIONS[1].opts[2]>>, <<QUESTIONS[1].opts[3]>>,
            <<QUESTIONS[1].opts[4]>>, <<<<"E", "m", "o", "t", "i", "o", "n", "a", "l", " ", "m", "o", "o", "d">>>>, <<<<"M", "O", "O", "D", " ", "s", "w", "i", "n", "g", "s">>>>, <<<<"M", "a", "n", "a", "g", "e", " ", "E", "m", "o", "t", "i", "o", "n", "a", "l", " ", "l", "o", "a", "d">>>> },
   q2 |-> { <<>>, <<QUESTIONS[2].opts[1]>>, <<QUESTIONS[2].opts[2]>>, <<QUESTIONS[2].opts[3]>>,
            <<<<"W", "a", "r", "m", " ", "a", "n", "d", " ", "S", "h", "o", "r", "t">>>> },
   q3 |-> { <<>>, <<QUESTIONS[3].opts[1]>>, <<QUESTIONS[3].opts[3]>> },
   q4 |-> { <<>>, <<QUESTIONS[4].opts[1]>>, <<QUESTIONS[4].opts[4]>> },
   q5 |-> { <<>>, <<QUESTIONS[5].opts[1]>>, <<QUESTIONS[5].opts[3]>> },
   q6 |-> { <<>>, <<QUESTIONS[6].opts[1]>>, <<<<"A", "l", "s", "o", " ", "p", "l", "a", "y", " ", "s", "o", "f", "t", " ", "v", "o", "i", "c", "e">>>>, <<<<"V", "O", "I", "C", "E", " ", "n", "o", "t", "e">>>> }]

MapperInputs ==
  { [q1 |-> a1, q2 |-> a2, q3 |-> a3, q4 |-> a4, q5 |-> a5, q6 |-> a6] :
      a1 \in MapperAnswers.q1, a2 \in MapperAnswers.q2, a3 \in MapperAnswers.q3,
      a4 \in MapperAnswers.q4, a5 \in MapperAnswers.q5, a6 \in MapperAnswers.q6 }

\* MirrorWithOnboarding.tsx 119: message is null until a submission settles
NoMessage == <<>>

\* MirrorWithOnboarding.tsx 116-119: the quiz as mounted by MirrorInterface (381-383).
\* storage is the localStorage item reflectai_onboarding_config, posted the
\* bodies handed to fetch, pending the suspended handleSubmit with its captured
\* cfg, saved the configs delivered through onSaved, runs the settled
\* submissions, log the effects of handleSubmit in the order it makes them;
\* mapped keeps the last call of the exported mapper
QuizInit ==
  [open |-> TRUE, step |-> 0, rawAnswers |-> NoAnswers, saving |-> FALSE,
   message |-> NoMessage, storage |-> <<>>, posted |-> <<>>, pending |-> <<>>,
   saved |-> <<>>, runs |-> <<>>, submits |-> 0, log |-> <<>>, mapped |-> <<>>]

\* a caller of the exported mapAnswersToConfig (one call in a run)
MapAnswers ==
  /\ quiz.mapped = <<>>
  /\ \E raw \in MapperInputs :
       quiz' = [quiz EXCEPT !.mapped = <<[raw |-> raw, cfg |-> mapAnswersToConfig(raw)]>>]
  /\ UNCHANGED <<mirror, checkin>>

\* MirrorWithOnboarding.tsx 161: QUESTIONS[step]
current(q) == QUESTIONS[q.step + 1]

\* MirrorWithOnboarding.tsx 207: Object.keys(rawAnswers).length
AnsweredCount(q) == Cardinality({id \in QuestionIds : q.rawAnswers[id] # <<>>})

\* MirrorWithOnboarding.tsx 173-189: the radio buttons the user picks among
\* (indexes into the options of each question)
QuizChoices ==
  [q1 |-> {1, 3}, q2 |-> {1}, q3 |-> {1}, q4 |-> {1}, q5 |-> {1}, q6 |-> {1, 2}]

\* the ways the POST of handleSubmit settles (137-155)
PostOutcomes == {"ok", "non_ok", "text_rejected", "rejected"}

\* mutant: the new answer replaces the answers instead of joining them
setAnswer_DropsOthers(q, id, v) == [q EXCEPT !.rawAnswers = [NoAnswers EXCEPT ![id] = <<v>>]]

\* MirrorWithOnboarding.tsx 121-123
setAnswer(q, id, v) == [q EXCEPT !.rawAnswers[id] = <<v>>]

\* MirrorWithOnboarding.tsx 192: the Back button
stepBack(q) == [q EXCEPT !.step = IF @ - 1 < 0 THEN 0 ELSE @ - 1]

\* MirrorWithOnboarding.tsx 196-203: the Next button
stepNext(q) == [q EXCEPT !.step = IF @ + 1 > Len(QUESTIONS) - 1 THEN Len(QUESTIONS) - 1 ELSE @ + 1]

\* mutant: an exception of localStorage.setItem leaves handleSubmit
handleSubmitBegin_LocalAborts(q, localOk) ==
  LET cfg == mapAnswersToConfig(q.rawAnswers)
  IN IF localOk
     THEN [q EXCEPT !.saving = TRUE, !.message = NoMessage, !.storage = <<cfg>>,
                    !.posted = Append(@, cfg),
                    !.pending = <<[cfg |-> cfg, local |-> localOk]>>,
                    !.submits = @ + 1,
                    !.log = @ \o <<"setItem", "fetch">>]
     ELSE [q EXCEPT !.saving = TRUE, !.message = NoMessage, !.submits = @ + 1,
                    !.log = @ \o <<"setItem">>]

\* mutant: onSaved is called right after the local write, and again at the end
handleSubmitBegin_SavedEarly(q, localOk) ==
  LET cfg == mapAnswersToConfig(q.rawAnswers)
  IN [q EXCEPT !.saving = TRUE,
               !.message = NoMessage,
               !.storage = IF localOk THEN <<cfg>> ELSE @,
               !.posted = Append(@, cfg),
               !.pending = <<[cfg |-> cfg, local |-> localOk]>>,
               !.submits = @ + 1,
               !.open = FALSE,
               !.log = @ \o <<"setItem", "onSaved", "hide", "fetch">>]

\* MirrorWithOnboarding.tsx 125-142: handleSubmit up to the await of fetch;
\* localOk tells whether localStorage.setItem returned or threw (131-135)
handleSubmitBegin(q, localOk) ==
  LET cfg == mapAnswersToConfig(q.rawAnswers)
  IN [q EXCEPT !.saving = TRUE,
               !.message = NoMessage,
               !.storage = IF localOk THEN <<cfg>> ELSE @,
               !.posted = Append(@, cfg),
               !.pending = <<[cfg |-> cfg, local |-> localOk]>>,
               !.submits = @ + 1,
               !.log = @ \o <<"setItem", "fetch">>]

\* MirrorWithOnboarding.tsx 144-158 and 364-376: the rest of handleSubmit once
\* the POST settled, with the parent's onSaved handler hiding the quiz
handleSubmitSettled(q, outcome) ==
  LET run == q.pending[1]
  IN [q EXCEPT !.message =
                 IF outcome = "ok" THEN <<"Saved! Your preferences are set.">>
                 ELSE IF outcome = "non_ok" THEN <<"Saved locally. Backend save failed.">>
                 ELSE <<"Saved locally. Could not reach backend.">>,
               !.saving = FALSE,
               !.saved = Append(@, run.cfg),
               !.runs = Append(@, [cfg |-> run.cfg, local |-> run.local, remote |-> outcome]),
               !.pending = <<>>,
               !.open = FALSE,
               !.log = @ \o <<"settled", "onSaved", "hide">>]

\* the user picks an option of the current question
SetAnswer ==
  /\ quiz.open
  /\ \E i \in QuizChoices[current(quiz).id] :
       quiz' = setAnswer(quiz, current(quiz).id, current(quiz).opts[i])
  /\ UNCHANGED <<mirror, checkin>>

\* the Back button, disabled on the first step
StepBack ==
  /\ quiz.open
  /\ quiz.step # 0
  /\ quiz' = stepBack(quiz)
  /\ UNCHANGED <<mirror, checkin>>

\* the Next button, shown before the last step, disabled without an answer
StepNext ==
  /\ quiz.open
  /\ quiz.step < Len(QUESTIONS) - 1
  /\ quiz.rawAnswers[current(quiz).id] # <<>>
  /\ quiz' = stepNext(quiz)
  /\ UNCHANGED <<mirror, checkin>>

\* the Submit button, shown on the last step, disabled while saving or
\* before every question has an answer
Submit ==
  /\ quiz.open
  /\ quiz.step = Len(QUESTIONS) - 1
  /\ ~quiz.saving
  /\ AnsweredCount(quiz) >= Len(QUESTIONS)
  /\ \E localOk \in BOOLEAN : quiz' = handleSubmitBegin(quiz, localOk)
  /\ UNCHANGED <<mirror, checkin>>

\* the POST of a suspended handleSubmit settles
PostSettled ==
  /\ quiz.pending # <<>>
  /\ \E outcome \in PostOutcomes : quiz' = handleSubmitSettled(quiz, outcome)
  /\ UNCHANGED <<mirror, checkin>>

(***************************************************************************)
(* part_000: the check-in App with the 3-second auto-stop                  *)
(***************************************************************************)
\* part_000 84: the delay of the auto-stop timeout, in seconds
AutoStopDelay == 3

\* the App's recorder; onstop tells whether a stop handler was assigned
NoRecorder == [state |-> "none", onstop |-> FALSE, stops |-> 0]

\* the state after the first render and its mount effect (part_000 9-17, 20-37)
CheckinInit ==
  [mounted |-> TRUE,
   isRecording |-> FALSE, loading |-> FALSE, result |-> "null", checkinHistory |-> <<>>,
   mediaRecorderRef |-> FALSE, streamRef |-> FALSE, audioChunksRef |-> <<>>,
   acquiring |-> TRUE, videoLive |-> FALSE, audioLive |-> FALSE, videoReady |-> FALSE,
   recorder |-> NoRecorder, timers |-> <<>>, checkins |-> 0, refused |-> FALSE]

Init == mirror = MirrorInit /\ checkin = CheckinInit /\ quiz = QuizInit

\* part_000 98-100: processCheckin up to its first await
processCheckinBegin(s) ==
  [s EXCEPT !.loading = SetState(s, @, TRUE),
            !.result = SetState(s, @, "null"),
            !.checkins = @ + 1]

\* part_000 87-96, called from a render whose isRecording is rec
checkinStopRecording(s, rec) ==
  IF s.mediaRecorderRef /\ rec
  THEN [s EXCEPT !.recorder = [@ EXCEPT !.state = IF @ = "recording" THEN "stopping" ELSE @,
                                        !.stops = @ + 1,
                                        !.onstop = TRUE],
                 !.isRecording = SetState(s, @, FALSE)]
  ELSE s

\* an auto-stop timeout: the isRecording of the render that armed it, and the
\* seconds left
AutoStopTimer(rec) == [isRecording |-> rec, due |-> AutoStopDelay]

\* mutant: startRecording without its check of streamRef
checkinStartRecording_NoStreamCheck(s, rec, ok) ==
  IF ~ok THEN [s EXCEPT !.audioChunksRef = <<>>]
  ELSE [s EXCEPT !.audioChunksRef = <<>>,
                 !.mediaRecorderRef = TRUE,
                 !.recorder = [NoRecorder EXCEPT
                                 !.state = IF s.audioLive THEN "recording" ELSE "stopping"],
                 !.isRecording = SetState(s, @, TRUE),
                 !.timers = Append(@, AutoStopTimer(rec))]

\* part_000 58-85, called from a render whose isRecording is rec; ok is FALSE
\* when the MediaRecorder constructor throws
checkinStartRecording(s, rec, ok) ==
  IF ~s.streamRef THEN s
  ELSE IF ~ok THEN [s EXCEPT !.audioChunksRef = <<>>]
  ELSE [s EXCEPT !.audioChunksRef = <<>>,
                 !.mediaRecorderRef = TRUE,
                 !.recorder = [NoRecorder EXCEPT
                                 !.state = IF s.audioLive THEN "recording" ELSE "stopping"],
                 !.isRecording = SetState(s, @, TRUE),
                 !.timers = Append(@, AutoStopTimer(rec))]

\* part_000 80-84: the timeout fires and reads the isRecording it captured
autoStopFired(s, timer) ==
  IF timer.isRecording THEN checkinStopRecording(s, timer.isRecording) ELSE s

\* part_000 157-162
handleCheckin(s, rec, ok) == IF ~rec THEN checkinStartRecording(s, rec, ok) ELSE s

\* part_000 70-74
checkinDataAvailable(s, size) ==
  IF size > 0 THEN [s EXCEPT !.audioChunksRef = Append(@, 1)] ELSE s

\* the task of an ended recorder: dataavailable with all it gathered, then stop
\* (part_000 92-94 when a stop handler was assigned)
checkinStopTask(s, size) ==
  LET s1 == [checkinDataAvailable(s, size) EXCEPT !.recorder.state = "inactive"]
  IN IF s.recorder.onstop THEN processCheckinBegin(s1) ELSE s1

\* part_000 23-30: getUserMedia resolved
initializeMediaResolved(s) ==
  [s EXCEPT !.acquiring = FALSE, !.streamRef = TRUE,
            !.videoLive = TRUE, !.audioLive = TRUE]

\* part_000 31-34: getUserMedia rejected; only an alert
initializeMediaRejected(s) == [s EXCEPT !.acquiring = FALSE]

\* a track of the stream ends (track.stop(), or the device goes away); the
\* platform ends a recorder whose tracks (part_000 64: the audio tracks) have ended
trackEnded(s, kind) ==
  IF kind = "audio"
  THEN [s EXCEPT !.audioLive = FALSE,
                 !.recorder.state = IF @ = "recording" THEN "stopping" ELSE @]
  ELSE [s EXCEPT !.videoLive = FALSE]

\* part_000 39-43: the cleanup stops the tracks of the stream it finds
checkinUnmount(s) ==
  IF s.streamRef
  THEN trackEnded(trackEnded([s EXCEPT !.mounted = FALSE], "video"), "audio")
  ELSE [s EXCEPT !.mounted = FALSE]

InitializeMediaResolve ==
  /\ checkin.acquiring
  /\ checkin' = initializeMediaResolved(checkin)
  /\ UNCHANGED <<mirror, quiz>>

InitializeMediaReject ==
  /\ checkin.acquiring
  /\ checkin' = initializeMediaRejected(checkin)
  /\ UNCHANGED <<mirror, quiz>>

\* the video element has loaded the stream's metadata (its dimensions are known)
VideoLoaded ==
  /\ checkin.mounted /\ checkin.videoLive /\ ~checkin.videoReady
  /\ checkin' = [checkin EXCEPT !.videoReady = TRUE]
  /\ UNCHANGED <<mirror, quiz>>

\* the button of part_000 212-220; refused tells that startRecording was
\* called while streamRef was empty
HandleCheckin ==
  /\ checkin.mounted /\ ~checkin.loading /\ ~checkin.isRecording
  /\ \E ok \in BOOLEAN :
       checkin' = [handleCheckin(checkin, checkin.isRecording, ok) EXCEPT
                     !.refused = @ \/ ~checkin.streamRef]
  /\ UNCHANGED <<mirror, quiz>>

\* one second passes
Tick ==
  /\ \E i \in DOMAIN checkin.timers : checkin.timers[i].due > 0
  /\ checkin' = [checkin EXCEPT !.timers =
                   [i \in DOMAIN @ |-> [@[i] EXCEPT !.due = IF @ > 0 THEN @ - 1 ELSE 0]]]
  /\ UNCHANGED <<mirror, quiz>>

AutoStopTimerFire ==
  /\ \E i \in DOMAIN checkin.timers :
       /\ checkin.timers[i].due = 0
       /\ checkin' = autoStopFired([checkin EXCEPT !.timers = RemoveAt(@, i)], checkin.timers[i])
  /\ UNCHANGED <<mirror, quiz>>

\* the device of a live track goes away
TrackEnd ==
  /\ \E kind \in {"video", "audio"} :
       /\ IF kind = "audio" THEN checkin.audioLive ELSE checkin.videoLive
       /\ checkin' = trackEnded(checkin, kind)
  /\ UNCHANGED <<mirror, quiz>>

CheckinStopTask ==
  /\ checkin.recorder.state = "stopping"
  /\ \E size \in {0, 1} : checkin' = checkinStopTask(checkin, size)
  /\ UNCHANGED <<mirror, quiz>>

CheckinUnmount ==
  /\ checkin.mounted
  /\ checkin' = checkinUnmount(checkin)
  /\ UNCHANGED <<mirror, quiz>>

NextCheckin ==
  \/ InitializeMediaResolve
  \/ InitializeMediaReject
  \/ VideoLoaded
  \/ HandleCheckin
  \/ Tick
  \/ AutoStopTimerFire
  \/ TrackEnd
  \/ CheckinStopTask
  \/ CheckinUnmount

SpecCheckin == Init /\ [][NextCheckin]_vars

(***************************************************************************)
(* Specifications of MirrorInterface                                       *)
(***************************************************************************)
\* the video session and the emotion polling, the user recording nothing
NextDetect ==
  \/ GetUserMediaResolve
  \/ GetUserMediaReject
  \/ StartTimerFire(MaxDetections)
  \/ EmotionIntervalTick(MaxDetections)
  \/ ForceEmotionUpdate(MaxDetections)
  \/ CaptureDone
  \/ AnalyzeResponse
  \/ AnalyzeFailure
  \/ ToggleVideo
  \/ Unmount

SpecDetect == Init /\ [][NextDetect]_vars

\* recording and upload on a camera that stays on until the component unmounts,
\* the polling left aside (it shares no field with the recording)
NextRecord ==
  \/ GetUserMediaResolve
  \/ GetUserMediaReject
  \/ ToggleRecording
  \/ RecorderData
  \/ RecorderStopTask
  \/ UploadCaptured
  \/ UploadResponse
  \/ UploadFailure
  \/ QuickAnalyze
  \/ Unmount

SpecRecord == Init /\ [][NextRecord]_vars

\* a long polling run on a camera that stays on, against a server that answers
NextHistory ==
  \/ GetUserMediaResolve
  \/ StartTimerFire(MaxHistoryRuns)
  \/ EmotionIntervalTick(MaxHistoryRuns)
  \/ ForceEmotionUpdate(MaxHistoryRuns)
  \/ CaptureDone
  \/ AnalyzeResponse

SpecHistory == Init /\ [][NextHistory]_vars

\* the polling with its interval ticks counted, against a server that answers,
\* the Update Emotion button unused
NextPoll ==
  \/ GetUserMediaResolve
  \/ StartTimerFire(MaxDetections)
  \/ PollTick(MaxDetections)
  \/ CaptureDone
  \/ AnalyzeResponse
  \/ ToggleVideo

SpecPoll == Init /\ [][NextPoll]_vars

\* the normalizer run on every emotion field of NormalizerInputs
NextNormalize ==
  \/ GetUserMediaResolve
  \/ StartTimerFire(MaxNormalized)
  \/ ForceEmotionCycle(MaxNormalized)
  \/ CaptureDone
  \/ AnalyzeAnyResponse

SpecNormalize == Init /\ [][NextNormalize]_vars

\* uploads of the Analyze Now button, answered with every reply of ReplyInputs
NextReply ==
  \/ GetUserMediaResolve
  \/ GetUserMediaReject
  \/ ToggleVideo
  \/ QuickAnalyze
  \/ UploadCaptured
  \/ UploadAnyResponse
  \/ UploadFailure
  \/ Unmount

SpecReply == Init /\ [][NextReply]_vars

\* calls of the exported mapper
NextMapper == MapAnswers

SpecMapper == Init /\ [][NextMapper]_vars

\* the chat: typed messages, their delayed answers and the answers to uploads
NextChat ==
  \/ GetUserMediaResolve
  \/ ChangeInput
  \/ SendText
  \/ ReplyTimerFire
  \/ QuickAnalyze
  \/ UploadCaptured
  \/ UploadResponse
  \/ UploadFailure
  \/ Unmount

SpecChat == Init /\ [][NextChat]_vars

\* the onboarding quiz from its first step to the delivery of the config
NextQuiz ==
  \/ SetAnswer
  \/ StepBack
  \/ StepNext
  \/ Submit
  \/ PostSettled

SpecQuiz == Init /\ [][NextQuiz]_vars

(***************************************************************************)
(* Claims                                                                  *)
(***************************************************************************)
PendingRequests(s) == {i \in DOMAIN s.analyses : s.analyses[i].stage = "fetch"}

\* C1: in every reachable state at most one analyzeEmotion request to /analyze
\* has been sent and not yet answered.
C1_AtMostOneRequestPending == Cardinality(PendingRequests(mirror)) <= 1

\* C2: emotionHistory never holds more than 10 entries; a result appended to a
\* history of 10 removes exactly the oldest entry, the others keep their order
\* and the new result is last; nothing else changes the history.
C2_HistoryIsBoundedFifo ==
  /\ [](Len(mirror.emotionHistory) <= 10)
  /\ [][LET h == mirror.emotionHistory
            g == mirror'.emotionHistory
        IN IF mirror'.appended = mirror.appended + 1
           THEN /\ Len(g) = IF Len(h) < 10 THEN Len(h) + 1 ELSE 10
                /\ g[Len(g)] = mirror'.currentEmotion
                /\ \A k \in 1..(Len(g) - 1) : g[k] = h[k + Len(h) + 1 - Len(g)]
           ELSE g = h]_vars

\* C2 witness: an 11th result was appended to a full history
C2_Witness == mirror.appended = 11 /\ Len(mirror.emotionHistory) = 10

CapturePending(s, i) ==
  \E j \in DOMAIN s.uploads : s.uploads[j].session = i /\ s.uploads[j].stage = "capture"

\* C3 (as claimed): a session on which stop() was called and whose stop event
\* has been handled has had exactly one uploadToAnalyze call.
C3_ExactlyOneUpload ==
  \A i \in DOMAIN mirror.recorders :
    (/\ mirror.recorders[i].stops >= 1
     /\ mirror.recorders[i].state = "inactive"
     /\ ~CapturePending(mirror, i)) => mirror.recorders[i].uploads = 1

\* C3 (amended): a session takes at most one stop() and has at most one
\* uploadToAnalyze call, none before its stop event; once the stop event is
\* handled it has exactly one if the chunk buffer held a chunk at that event
\* and none if the buffer was empty.
C3_OneUploadUnlessEmpty ==
  \A i \in DOMAIN mirror.recorders :
    LET r == mirror.recorders[i]
    IN /\ r.stops <= 1
       /\ r.uploads <= 1
       /\ r.state # "inactive" => r.uploads = 0 /\ r.atStop = -1
       /\ (r.state = "inactive" /\ ~CapturePending(mirror, i))
            => r.uploads = IF r.atStop > 0 THEN 1 ELSE 0

\* C3 witness: a stopped session whose one upload was made
C3_Witness ==
  \E i \in DOMAIN mirror.recorders :
    /\ mirror.recorders[i].stops = 1
    /\ mirror.recorders[i].state = "inactive"
    /\ mirror.recorders[i].uploads = 1

\* a session is open from its start() until its recorder is inactive and no
\* upload of it is on its way
SessionOpen(s, i) ==
  \/ s.recorders[i].state # "inactive"
  \/ \E j \in DOMAIN s.uploads : s.uploads[j].session = i

\* C4: at most one recording session is open at any time.
C4_AtMostOneOpenSession ==
  Cardinality({i \in DOMAIN mirror.recorders : SessionOpen(mirror, i)}) <= 1

Idle(s) == s.mediaRecorderRef = 0 \/ ~s.isRecording

RecordingState(s) ==
  <<s.isRecording, s.isUploading, s.audioChunksRef, s.captureIntervalRef,
    s.captureIntervals, s.mediaRecorderRef, s.recorders, s.uploads, s.messages>>

\* C5: stopRecording called while the machine is Idle changes no state and starts
\* no upload: in every reachable idle state the call leaves the state as it is,
\* and the cleanup of the mount effect, which calls it, leaves an idle
\* machine's recording state as it is.
C5_StopWhileIdleIsNoOp ==
  /\ [](Idle(mirror) => stopRecording(mirror, mirror.isRecording) = mirror)
  /\ [][(Idle(mirror) /\ mirror.mounted /\ ~mirror'.mounted)
          => RecordingState(mirror') = RecordingState(mirror)]_vars

\* C5 witness: an idle machine after a session, its chunks still in the buffer,
\* on which the cleanup has run
C5_Witness ==
  /\ ~mirror.mounted /\ ~mirror.isRecording
  /\ mirror.mediaRecorderRef # 0 /\ Len(mirror.audioChunksRef) > 0
  /\ \A i \in DOMAIN mirror.recorders : mirror.recorders[i].stops = 1

\* C6: a recording session always has its auto-stop pending, so that the
\* machine leaves Recording when the 3-second timeout fires.
C6_AutoStopEndsRecording ==
  (checkin.mounted /\ checkin.isRecording) => checkin.timers # <<>>

\* C7: when an upload ends, by a response or by a failure, isUploading is false
\* again and no request replaces the one that ended; with no upload left the
\* flag is false.
C7_UploadReturnsToIdle ==
  /\ []((mirror.mounted /\ mirror.uploads = <<>>) => ~mirror.isUploading)
  /\ [][(mirror'.mounted /\ \E j \in DOMAIN mirror.uploads :
                              /\ mirror.uploads[j].stage = "fetch"
                              /\ mirror'.uploads = RemoveAt(mirror.uploads, j))
          => ~mirror'.isUploading]_vars
  /\ [][Len(mirror'.uploads) < Len(mirror.uploads)
          => /\ Len(mirror'.uploads) = Len(mirror.uploads) - 1
             /\ \A i \in DOMAIN mirror.recorders :
                  mirror'.recorders[i].uploads = mirror.recorders[i].uploads]_vars

\* C7 witness: the upload of a session failed (no message came of it) and the
\* machine is idle again
C7_Witness ==
  /\ mirror.mounted /\ ~mirror.isUploading /\ mirror.uploads = <<>>
  /\ mirror.messages = <<>>
  /\ \E i \in DOMAIN mirror.recorders : mirror.recorders[i].uploads = 1

\* C8: every analyzeEmotion call that set the guard clears it when it ends, by a
\* result, a failure or an empty frame: with no call open the guard is clear, so
\* the Update Emotion button can issue a request again.
C8_GuardReleased ==
  /\ []((mirror.mounted /\ mirror.analyses = <<>>) => ~mirror.isDetecting)
  /\ [][(mirror'.mounted /\ Len(mirror'.analyses) < Len(mirror.analyses))
          => ~mirror'.isDetecting]_vars

\* C8 witness: calls have ended, one of them by a failure, and the guard is clear
C8_Witness ==
  /\ mirror.mounted /\ mirror.isVideoActive /\ mirror.analyses = <<>>
  /\ ~mirror.isDetecting
  /\ mirror.detectionCount > mirror.appended

\* C9: when the request of analyzeEmotion fails, currentEmotion becomes one of
\* the five fallback results, the detection is counted and the call ends.
C9_FailureGivesFallback ==
  [][(/\ mirror'.mounted
      /\ mirror'.appended = mirror.appended
      /\ \E i \in DOMAIN mirror.analyses :
           /\ mirror.analyses[i].stage = "fetch"
           /\ mirror'.analyses = RemoveAt(mirror.analyses, i))
       => /\ mirror'.currentEmotion \in
               { EmotionResult(Str("neutral"), Num(90), Undef),
                 EmotionResult(Str("happy"), Num(85), Undef),
                 EmotionResult(Str("surprised"), Num(70), Undef),
                 EmotionResult(Str("calm"), Num(80), Undef),
                 EmotionResult(Str("confused"), Num(60), Undef) }
          /\ mirror'.detectionCount = mirror.detectionCount + 1
          /\ mirror'.emotionHistory = mirror.emotionHistory]_vars

\* C9 witness: a fallback result is displayed and nothing was ever appended
C9_Witness ==
  /\ mirror.mounted /\ mirror.appended = 0 /\ mirror.detectionCount = 1
  /\ mirror.currentEmotion = EmotionResult(Str("surprised"), Num(70), Undef)

\* C10: the answer (or failure) of a request sent before the session was stopped
\* changes neither currentEmotion nor emotionHistory nor detectionCount.
C10_StaleAnswerDiscarded ==
  [][\A i \in DOMAIN mirror.analyses :
       (mirror.analyses[i].stale /\ mirror'.analyses = RemoveAt(mirror.analyses, i))
         => /\ mirror'.currentEmotion = mirror.currentEmotion
            /\ mirror'.emotionHistory = mirror.emotionHistory
            /\ mirror'.detectionCount = mirror.detectionCount]_vars

\* C11: on a session that was stopped (no stream is referenced), no timer of the
\* session is pending: no start timeout, no polling interval, no capture interval.
C11_NoTimerAfterStop ==
  ~mirror.streamRef =>
     /\ mirror.startTimers = EmptyBag
     /\ mirror.intervals = EmptyBag
     /\ mirror.captureIntervals = 0

\* C12: after the component was torn down no acquired stream is live: none is
\* referenced and none is live without a reference.
C12_NoLiveTrackAfterTeardown ==
  ~mirror.mounted => (~mirror.streamRef /\ mirror.leakedStreams = 0)

\* C13: while the component is mounted every live stream is the one streamRef
\* holds: no stream is live and unreferenced.
C13_OneLiveStream == mirror.mounted => mirror.leakedStreams = 0

\* C14: stopVideo on a released or never acquired session changes no state, and
\* stopVideo twice leaves the state of stopVideo once.
C14_StopVideoIdempotent ==
  /\ ~mirror.streamRef => stopVideo(mirror) = mirror
  /\ stopVideo(stopVideo(mirror)) = stopVideo(mirror)

\* C14 witness: a session that was on, was released by the video button, and on
\* which the cleanup called stopVideo again
C14_Witness ==
  /\ ~mirror.mounted /\ ~mirror.streamRef /\ ~mirror.isVideoActive
  /\ mirror.detectionCount > 0

\* C15: no upload of a session exists while its recorder is recording, and the
\* audio of a session's upload holds chunks of that session only.
C15_SegmentOfItsSession ==
  \A j \in DOMAIN mirror.uploads :
    LET u == mirror.uploads[j]
    IN u.session # 0 =>
         /\ mirror.recorders[u.session].state = "inactive"
         /\ \A k \in DOMAIN u.audio : u.audio[k] = u.session

\* C17: stopEmotionDetection leaves no polling interval, no reference to one and
\* (while mounted) a clear guard, and changes nothing else; when no poll is
\* active only the guard can change; with no interval referenced none is
\* pending, so no tick fires until polling is started again.
C17_StopPollingCancels ==
  LET r == stopEmotionDetection(mirror)
  IN /\ r.intervals = EmptyBag /\ r.emotionIntervalRef = <<>>
     /\ mirror.mounted => ~r.isDetecting
     /\ [r EXCEPT !.isDetecting = mirror.isDetecting,
                  !.intervals = mirror.intervals,
                  !.emotionIntervalRef = mirror.emotionIntervalRef] = mirror
     /\ mirror.emotionIntervalRef = <<>> =>
          /\ mirror.intervals = EmptyBag
          /\ [r EXCEPT !.isDetecting = mirror.isDetecting] = mirror

\* C17 witness: the start timeout armed the polling and the video button then
\* stopped it
C17_Witness ==
  /\ mirror.mounted /\ ~mirror.streamRef /\ ~mirror.isVideoActive
  /\ mirror.detectionCount > 0
  /\ mirror.startTimers = EmptyBag /\ mirror.acquiring = EmptyBag
  /\ mirror.emotionIntervalRef = <<>> /\ mirror.intervals = EmptyBag

\* C16: a tick of the polling interval that finds the video session active, a
\* frame to draw and no analyzeEmotion call open starts an analyzeEmotion call.
C16_TickSamples ==
  [][(/\ mirror'.ticks = mirror.ticks + 1
      /\ mirror.mounted /\ mirror.streamRef /\ mirror.isVideoActive
      /\ ~mirror.isDetecting /\ mirror.analyses = <<>>)
       => Len(mirror'.analyses) = 1]_vars

\* the last response carried an emotion field of this kind ("undef": none);
\* under SpecNormalize the displayed result is what the normalizer made of it
Normalized(kind) ==
  /\ mirror.response # <<>>
  /\ mirror.response[1].t = kind

Present(p) == p.t # "undef"

NonEmpty(p) == (p.t = "str" /\ p.s # "") \/ (p.t = "num" /\ p.n # 0)

C19_StringUsedDirectly ==
  Normalized("str") =>
    /\ mirror.currentEmotion.emotion = Str(mirror.response[1].s)
    /\ mirror.currentEmotion.confidence = Num(80)

\* C19 (amended): for a string that is not empty the result is that string with
\* confidence 0.8 and no dominantEmotion; the empty string is taken as no
\* emotion at all and gives "neutral" with confidence 0.8.
C19_NonEmptyStringUsedDirectly ==
  Normalized("str") =>
    /\ mirror.currentEmotion.emotion =
         IF mirror.response[1].s # "" THEN Str(mirror.response[1].s) ELSE Str("neutral")
    /\ mirror.currentEmotion.confidence = Num(80)
    /\ mirror.currentEmotion.dominantEmotion = Undef

\* C19 witness: the string "happy" was normalized
C19_Witness ==
  /\ Normalized("str") /\ mirror.response[1].s = "happy"
  /\ mirror.currentEmotion = EmotionResult(Str("happy"), Num(80), Undef)

\* C20: for a response without an emotion field the result is exactly
\* {emotion: "neutral", confidence: 0.8}, with no dominantEmotion.
C20_AbsentGivesNeutral ==
  Normalized("undef") =>
    mirror.currentEmotion = [emotion |-> Str("neutral"), confidence |-> Num(80),
                             dominantEmotion |-> Undef]

\* C20 witness: a response without an emotion field was normalized
C20_Witness ==
  /\ Normalized("undef") /\ mirror.response[1] = EmoAbsent
  /\ mirror.currentEmotion.emotion = Str("neutral")

\* C21: whatever emotion field a response carries, the result stored in
\* currentEmotion and every result in emotionHistory has a string as its emotion.
C21_EmotionIsString ==
  mirror.response # <<>> =>
    /\ mirror.currentEmotion.emotion.t = "str"
    /\ \A k \in DOMAIN mirror.emotionHistory : mirror.emotionHistory[k].emotion.t = "str"

\* C22 (as claimed): each successful upload appended one assistant message, whose
\* content is the reply when it is a string, the apology when it is an object
\* with a truthy error, the object's text when it has a text field and no
\* error, and the JSON text of the object otherwise.
C22_ReplyContentAsClaimed ==
  /\ Len(mirror.messages) = Len(mirror.replies)
  /\ \A k \in DOMAIN mirror.replies :
       LET r == mirror.replies[k]
       IN /\ mirror.messages[k].role = "assistant"
          /\ r.t = "str" => mirror.messages[k].content = Text(r.s)
          /\ r.t = "obj" =>
               mirror.messages[k].content =
                 IF NonEmpty(r.error) THEN Text(ApologyText)
                 ELSE IF Present(r.text) THEN PrimContent(r.text)
                 ELSE JsonText(JsonReply(r))

\* C22 (amended): each successful upload appended one assistant message, whose
\* content is the reply when it is a non-empty string; the apology when it is an
\* object with a truthy error (whatever its text); the object's text when the
\* error is falsy and the text truthy; the JSON text of the object when both
\* are falsy; and the fixed default line when the reply is absent or empty.
C22_ReplyContent ==
  /\ Len(mirror.messages) = Len(mirror.replies)
  /\ \A k \in DOMAIN mirror.replies :
       LET r == mirror.replies[k]
       IN /\ mirror.messages[k].role = "assistant"
          /\ mirror.messages[k].content =
               IF r.t = "str" /\ r.s # "" THEN Text(r.s)
               ELSE IF r.t = "obj" /\ NonEmpty(r.error) THEN Text(ApologyText)
               ELSE IF r.t = "obj" /\ NonEmpty(r.text) THEN PrimContent(r.text)
               ELSE IF r.t = "obj" THEN JsonText(JsonReply(r))
               ELSE Text("I've analyzed your input and I'm here to help!")

\* C22 witness: a reply with an error flag and a text was answered by the apology
C22_Witness ==
  /\ Len(mirror.replies) = 1 /\ Len(mirror.messages) = 1
  /\ mirror.replies[1] = ReplyObj(Str("failed"), Str("hi"))
  /\ mirror.messages[1].content =
       Text("I encountered an error analyzing your input. Please try again.")

\* C23: the mapper gives every unanswered question the catch-all of its field,
\* whatever the other answers are, keeps the answers as raw_answers, and maps no
\* answers at all to {demo, reflective, deep, coping_tips, multiple_daily, false, {}}.
C23_MissingAnswersDefault ==
  quiz.mapped # <<>> =>
    LET raw == quiz.mapped[1].raw
        cfg == quiz.mapped[1].cfg
    IN /\ raw.q1 = <<>> => cfg.mode = "demo"
       /\ raw.q2 = <<>> => cfg.tone = "reflective"
       /\ raw.q3 = <<>> => cfg.depth = "deep"
       /\ raw.q4 = <<>> => cfg.intervention_type = "coping_tips"
       /\ raw.q5 = <<>> => cfg.frequency = "multiple_daily"
       /\ raw.q6 = <<>> => cfg.audio_enabled = FALSE
       /\ cfg.raw_answers = raw
       /\ (\A id \in QuestionIds : raw[id] = <<>>) =>
            cfg = [mode |-> "demo", tone |-> "reflective", depth |-> "deep",
                   intervention_type |-> "coping_tips", frequency |-> "multiple_daily",
                   audio_enabled |-> FALSE, raw_answers |-> [id \in QuestionIds |-> <<>>]]

\* C23 witness: only q1 was answered, and the other five fields took their defaults
C23_Witness ==
  /\ quiz.mapped # <<>>
  /\ quiz.mapped[1].raw.q1 # <<>>
  /\ \A id \in QuestionIds \ {"q1"} : quiz.mapped[1].raw[id] = <<>>
  /\ quiz.mapped[1].cfg.mode = "stress_management"
  /\ quiz.mapped[1].cfg.frequency = "multiple_daily"

\* C24: mode is mood_monitoring when q1 holds "Understand" or, in any case,
\* "mood"; else emotional_support for "Emotional"; else stress_management for
\* "Manage"; else demo.  tone is direct for "Short", else warm for "Warm", else
\* reflective.  audio_enabled is true exactly when q6 holds "play" or "voice"
\* in any case.  raw_answers is the input.
C24_KeywordPrecedence ==
  quiz.mapped # <<>> =>
    LET raw == quiz.mapped[1].raw
        cfg == quiz.mapped[1].cfg
        q1 == IF raw.q1 = <<>> THEN <<>> ELSE raw.q1[1]
        q2 == IF raw.q2 = <<>> THEN <<>> ELSE raw.q2[1]
        q6 == IF raw.q6 = <<>> THEN <<>> ELSE raw.q6[1]
    IN /\ cfg.mode =
            IF Includes(q1, Kw_Understand) \/ Includes(toLowerCase(q1), Kw_mood)
            THEN "mood_monitoring"
            ELSE IF Includes(q1, Kw_Emotional) THEN "emotional_support"
            ELSE IF Includes(q1, Kw_Manage) THEN "stress_management"
            ELSE "demo"
       /\ q1 = <<"E", "m", "o", "t", "i", "o", "n", "a", "l", " ", "m", "o", "o", "d">> => cfg.mode = "mood_monitoring"
       /\ q1 = <<"M", "O", "O", "D", " ", "s", "w", "i", "n", "g", "s">> => cfg.mode = "mood_monitoring"
       /\ q1 = <<"M", "a", "n", "a", "g", "e", " ", "E", "m", "o", "t", "i", "o", "n", "a", "l", " ", "l", "o", "a", "d">> => cfg.mode = "emotional_support"
       /\ cfg.tone = IF Includes(q2, Kw_Short) THEN "direct"
                     ELSE IF Includes(q2, Kw_Warm) THEN "warm" ELSE "reflective"
       /\ q2 = <<"W", "a", "r", "m", " ", "a", "n", "d", " ", "S", "h", "o", "r", "t">> => cfg.tone = "direct"
       /\ cfg.audio_enabled <=>
            (Includes(toLowerCase(q6), Kw_play) \/ Includes(toLowerCase(q6), Kw_voice))
       /\ q6 = <<"V", "O", "I", "C", "E", " ", "n", "o", "t", "e">> => cfg.audio_enabled
       /\ cfg.raw_answers = raw
       /\ (q1 = <<"M", "a", "n", "a", "g", "e", " ", "s", "t", "r", "e", "s", "s">> /\ q2 = <<"S", "h", "o", "r", "t", " ", "&", " ", "d", "i", "r", "e", "c", "t">> /\ q6 = <<"A", "l", "s", "o", " ", "p", "l", "a", "y", " ", "s", "o", "f", "t", " ", "v", "o", "i", "c", "e">>)
            => (cfg.mode = "stress_management" /\ cfg.tone = "direct" /\ cfg.audio_enabled)

\* C24 witness: {q1: "Manage stress", q2: "Short & direct", q6: "Also play soft voice"}
C24_Witness ==
  /\ quiz.mapped # <<>>
  /\ quiz.mapped[1].raw = [q1 |-> <<<<"M", "a", "n", "a", "g", "e", " ", "s", "t", "r", "e", "s", "s">>>>, q2 |-> <<<<"S", "h", "o", "r", "t", " ", "&", " ", "d", "i", "r", "e", "c", "t">>>>, q3 |-> <<>>,
                           q4 |-> <<>>, q5 |-> <<>>, q6 |-> <<<<"A", "l", "s", "o", " ", "p", "l", "a", "y", " ", "s", "o", "f", "t", " ", "v", "o", "i", "c", "e">>>>]
  /\ quiz.mapped[1].cfg.mode = "stress_management"
  /\ quiz.mapped[1].cfg.tone = "direct"
  /\ quiz.mapped[1].cfg.audio_enabled

\* C25: in handleSubmit every submission is posted whether or not the local
\* write succeeded, the local write stays whatever the POST does, and every
\* settled submission delivered its mapped config through onSaved and left
\* saving false.
C25_PersistenceStepsIndependent ==
  /\ Len(quiz.posted) = quiz.submits
  /\ \A i \in 1..Len(quiz.pending) :
       /\ quiz.posted[Len(quiz.posted)] = quiz.pending[i].cfg
       /\ quiz.pending[i].local => quiz.storage = <<quiz.pending[i].cfg>>
  /\ Len(quiz.saved) = Len(quiz.runs)
  /\ Len(quiz.runs) + Len(quiz.pending) = quiz.submits
  /\ \A i \in 1..Len(quiz.runs) :
       /\ quiz.saved[i] = quiz.runs[i].cfg
       /\ quiz.posted[i] = quiz.runs[i].cfg
       /\ quiz.runs[i].cfg = mapAnswersToConfig(quiz.runs[i].cfg.raw_answers)
       /\ quiz.runs[i].local => quiz.storage = <<quiz.runs[i].cfg>>
  /\ (quiz.pending = <<>>) => ~quiz.saving

\* C25 witness: the local write threw, the backend answered non-2xx, and the
\* config was delivered all the same
C25_Witness ==
  /\ quiz.runs # <<>>
  /\ ~quiz.runs[1].local
  /\ quiz.runs[1].remote = "non_ok"
  /\ quiz.saved = <<quiz.runs[1].cfg>>
  /\ quiz.posted = <<quiz.runs[1].cfg>>
  /\ ~quiz.saving

\* C26: the message log is append-only: every step keeps the log it found as a
\* prefix of the log it leaves, and a call of handleSendText on an input that
\* is empty or only white space leaves the log as it was.
C26_LogAppendOnly ==
  [][/\ Len(mirror'.messages) >= Len(mirror.messages)
     /\ SubSeq(mirror'.messages, 1, Len(mirror.messages)) = mirror.messages
     /\ (mirror'.sends = mirror.sends + 1 /\ mirror.inputText \in {<<>>, <<" ", " ">>, <<"\t">>})
          => mirror'.messages = mirror.messages]_vars

\* C26 witness: one typed message, one send of white space only, and two
\* answers (to the upload and to the typed message) in the log
C26_Witness ==
  /\ mirror.sends = 2
  /\ Len(mirror.messages) = 3
  /\ Cardinality({k \in 1..3 : mirror.messages[k].role = "user"}) = 1
  /\ \E k \in 1..3 :
       mirror.messages[k].role = "assistant" /\ mirror.messages[k].content = DemoReply

\* C27: startRecording called while streamRef is empty changes nothing (no
\* recorder, the chunk buffer and the timers as they were, isRecording false),
\* and as long as there is no stream no recording and no upload exists.
C27_NoStreamNoRecording ==
  [][/\ (~checkin.streamRef /\ ~checkin.refused /\ checkin'.refused)
          => checkin' = [checkin EXCEPT !.refused = TRUE]
     /\ ~checkin'.streamRef
          => /\ checkin'.recorder = NoRecorder
             /\ ~checkin'.mediaRecorderRef
             /\ checkin'.audioChunksRef = <<>>
             /\ checkin'.timers = <<>>
             /\ ~checkin'.isRecording
             /\ ~checkin'.loading
             /\ checkin'.checkins = 0]_vars

\* C27 witness: the button was pressed before any stream was stored
C27_Witness ==
  /\ checkin.refused
  /\ ~checkin.streamRef
  /\ checkin.recorder = NoRecorder
  /\ ~checkin.isRecording

\* analyzeEmotion calls of s waiting for canvas.toBlob / for the response
StageCount(s, stage) == Cardinality({i \in DOMAIN s.analyses : s.analyses[i].stage = stage})

\* C28: a cycle of analyzeEmotion whose captureFrame gives the empty blob, at
\* once or from canvas.toBlob, sends no request, leaves currentEmotion,
\* emotionHistory and detectionCount as they were, and ends with isDetecting false.
C28_EmptyFrameSkipsCycle ==
  [][(\/ mirror'.skips # mirror.skips
      \/ /\ StageCount(mirror', "capture") = StageCount(mirror, "capture") - 1
         /\ StageCount(mirror', "fetch") = StageCount(mirror, "fetch"))
       => /\ StageCount(mirror', "fetch") = StageCount(mirror, "fetch")
          /\ mirror'.currentEmotion = mirror.currentEmotion
          /\ mirror'.emotionHistory = mirror.emotionHistory
          /\ mirror'.detectionCount = mirror.detectionCount
          /\ mirror'.appended = mirror.appended
          /\ ~mirror'.isDetecting]_vars

\* C28 witness: a cycle found no frame, and a later one gave the first result
C28_Witness ==
  /\ mirror.skips
  /\ mirror.detectionCount = 1
  /\ Len(mirror.emotionHistory) = 1
  /\ mirror.analyses = <<>>
  /\ ~mirror.isDetecting

\* C29: no upload whose request was sent carries a zero-length audio blob: the
\* audio handed to uploadToAnalyze, by a stopped recording or by quickAnalyze,
\* holds at least one chunk.
C29_NoZeroLengthAudio ==
  \A j \in DOMAIN mirror.uploads :
    mirror.uploads[j].stage = "fetch" => mirror.uploads[j].audio # <<>>

\* C30: no step decreases detectionCount, and every step that stores a
\* normalized result appends exactly that one result to emotionHistory and
\* raises detectionCount by exactly 1.
C30_DetectionCountMonotonic ==
  [][/\ mirror'.detectionCount >= mirror.detectionCount
     /\ mirror'.appended = mirror.appended + 1
          => /\ mirror'.detectionCount = mirror.detectionCount + 1
             /\ mirror'.emotionHistory =
                  AppendHistory(mirror.emotionHistory, mirror'.currentEmotion)
             /\ Len(mirror'.emotionHistory) =
                  IF Len(mirror.emotionHistory) < HistoryCapacity
                  THEN Len(mirror.emotionHistory) + 1 ELSE HistoryCapacity
             /\ mirror'.emotionHistory[Len(mirror'.emotionHistory)] = mirror'.currentEmotion
     /\ mirror'.emotionHistory # mirror.emotionHistory
          => mirror'.appended = mirror.appended + 1]_vars

\* C30 witness: a failed request and a stored result were both counted
C30_Witness ==
  /\ mirror.appended = 1
  /\ Len(mirror.emotionHistory) = 1
  /\ mirror.detectionCount = 2

\* C31: when the emotion object of the last response carries a confidence
\* field, the stored confidence is that value, 0 included; the default 0.8 is
\* used only when the field is missing.
C31_OwnConfidenceKept ==
  Normalized("obj") =>
    LET c == mirror.response[1].o.confidence
    IN mirror.currentEmotion.confidence = IF Present(c) THEN c ELSE Num(DefaultConfidence)

\* C32: emotionHistory never holds more than min(10, detectionCount) entries,
\* and every entry is the normalized form of a server response: the fallback
\* of a failed analysis is counted but not appended.
C32_FallbackNotInHistory ==
  /\ Len(mirror.emotionHistory) <= HistoryCapacity
  /\ Len(mirror.emotionHistory) <= mirror.detectionCount
  /\ \A k \in DOMAIN mirror.emotionHistory :
       \E e \in PollResponses : mirror.emotionHistory[k] = NormalizeEmotion(e)

\* C32 witness: the last analysis failed after an earlier one had succeeded;
\* the fallback is shown and counted, and the history holds the real result only
C32_Witness ==
  /\ mirror.detectionCount = 2
  /\ Len(mirror.emotionHistory) = 1
  /\ \E k \in DOMAIN mockEmotions : mirror.currentEmotion = mockEmotions[k]
  /\ mirror.emotionHistory[1] # mirror.currentEmotion

\* the uploads of s whose request to /analyze was sent and is not yet answered
UploadsInFlight(s) == {j \in DOMAIN s.uploads : s.uploads[j].stage = "fetch"}

\* C33: while the component is mounted, isUploading is true in every state in
\* which an upload request is in flight, and no two upload requests are in
\* flight together.
C33_UploadingWhileInFlight ==
  mirror.mounted =>
    /\ UploadsInFlight(mirror) # {} => mirror.isUploading
    /\ Cardinality(UploadsInFlight(mirror)) <= 1

\* C34: at most one polling interval is armed at any time, and it is the one
\* emotionIntervalRef holds: every startEmotionDetection cancels the previous
\* interval before it arms a new one.
C34_OnePollingInterval ==
  /\ BagCardinality(mirror.intervals) <= 1
  /\ \A c \in BagToSet(mirror.intervals) : mirror.emotionIntervalRef = <<c>>

\* C34 witness: startVideo ran twice without a stop between, both start
\* timeouts have fired, and one interval is armed
C34_Witness ==
  /\ mirror.mounted /\ mirror.isVideoActive
  /\ mirror.leakedStreams = 1
  /\ mirror.startTimers = EmptyBag /\ mirror.acquiring = EmptyBag
  /\ BagCardinality(mirror.intervals) = 1

\* the config field question id decides
FieldOf(cfg, id) ==
  CASE id = "q1" -> cfg.mode
    [] id = "q2" -> cfg.tone
    [] id = "q3" -> cfg.depth
    [] id = "q4" -> cfg.intervention_type
    [] id = "q5" -> cfg.frequency
    [] id = "q6" -> cfg.audio_enabled

\* the answers in which only question id is answered, with v
OnlyAnswer(id, v) == [NoAnswers EXCEPT ![id] = <<v>>]

\* C35: an answer that is one of the options QUESTIONS offers maps to a value
\* of its config field that no other option of the same question maps to, and
\* "Multiple times a day" gives the frequency multiple_daily.
C35_OptionsMapDistinct ==
  quiz.mapped # <<>> =>
    LET raw == quiz.mapped[1].raw
        cfg == quiz.mapped[1].cfg
    IN /\ \A k \in DOMAIN QUESTIONS :
            LET id == QUESTIONS[k].id
                opts == QUESTIONS[k].opts
            IN \A i \in DOMAIN opts :
                 raw[id] = <<opts[i]>> =>
                   \A j \in DOMAIN opts \ {i} :
                     FieldOf(cfg, id) # FieldOf(mapAnswersToConfig(OnlyAnswer(id, opts[j])), id)
       /\ raw.q5 = <<QUESTIONS[5].opts[3]>> => cfg.frequency = "multiple_daily"

\* C36: in the quiz step stays within 0..5, every question before the current
\* step has an answer, and a submission begins only on the last step with all
\* six questions answered and no submission saving.
C36_QuizStepsInOrder ==
  /\ [](/\ quiz.step \in 0..(Len(QUESTIONS) - 1)
        /\ \A k \in 1..quiz.step : quiz.rawAnswers[QUESTIONS[k].id] # <<>>)
  /\ [][quiz'.submits # quiz.submits
          => /\ \A id \in QuestionIds : quiz.rawAnswers[id] # <<>>
             /\ ~quiz.saving
             /\ quiz.step = Len(QUESTIONS) - 1]_vars

\* C36 witness: every question was answered on the way to the last step, the
\* submission is saving, and the user has stepped back meanwhile
C36_Witness ==
  /\ quiz.step = 2
  /\ quiz.rawAnswers.q1 = <<QUESTIONS[1].opts[3]>>
  /\ \A id \in QuestionIds : quiz.rawAnswers[id] # <<>>
  /\ quiz.saving /\ quiz.submits = 1

\* the places of effect e in the log of handleSubmit
LogPlaces(e) == {i \in DOMAIN quiz.log : quiz.log[i] = e}

\* C37: within a handleSubmit the local write is attempted before the POST is
\* issued, onSaved is called exactly once, after the POST has settled, and the
\* quiz is hidden after that call and not before.
C37_SubmitStepsOrdered ==
  /\ \A i \in LogPlaces("fetch") : \E j \in LogPlaces("setItem") : j < i
  /\ Cardinality(LogPlaces("fetch")) = quiz.submits
  /\ Cardinality(LogPlaces("onSaved")) = Len(quiz.runs)
  /\ Cardinality(LogPlaces("onSaved")) <= quiz.submits
  /\ Len(quiz.saved) = Cardinality(LogPlaces("onSaved"))
  /\ \A i \in LogPlaces("onSaved") :
       \E j \in LogPlaces("fetch"), k \in LogPlaces("settled") : j < k /\ k < i
  /\ \A i \in LogPlaces("hide") : \E j \in LogPlaces("onSaved") : j < i
  /\ quiz.pending # <<>> => (quiz.open /\ LogPlaces("onSaved") = {})
  /\ quiz.runs # <<>> => (~quiz.open /\ quiz.log[Len(quiz.log)] = "hide")

\* C37 witness: a submission whose POST was rejected has run to its end
C37_Witness ==
  /\ quiz.log = <<"setItem", "fetch", "settled", "onSaved", "hide">>
  /\ quiz.runs # <<>> /\ quiz.runs[1].remote = "rejected"
  /\ Len(quiz.saved) = 1
  /\ ~quiz.open

====
